---- MODULE Spec2Model ----
(***************************************************************************)
(* Model of the dictator-datastar decree: the markup tokenizer             *)
(* (helpers.rs), the attribute-name decomposer (helpers.rs), the six rule  *)
(* checkers (validation.rs, typos.rs, modifiers.rs, actions.rs) and the    *)
(* lint dispatch (lib.rs).                                                 *)
(*                                                                         *)
(* Texts are TLA+ strings; offsets are 0-based byte offsets as in the      *)
(* source, and every text the model draws is ASCII, so byte offsets and    *)
(* character offsets coincide.  An Option<T> is the set {} (None) or {x}   *)
(* (Some(x)).                                                              *)
(***************************************************************************)
EXTENDS Integers, Sequences, FiniteSets, TLC

VARIABLES
    mode,        \* which component this behaviour exercises
    pc,          \* position of the running function
    path,        \* lint's _path argument
    source,      \* the text under analysis (markup source or attribute name)
    attr_value,  \* check_action_syntax: the attribute value scanned
    config,      \* DatastarConfig
    i,           \* parse_tags / check_action_syntax: outer cursor
    idx,         \* parse_tags: inner cursor
    tag_name,    \* parse_tags: name of the tag whose attributes are parsed
    attributes,  \* parse_tags: attributes of the tag being parsed
    tags,        \* parse_tags: the tags emitted so far
    fault,       \* an index or a slice went out of range (a panic in Rust)
    prev,        \* cursor value before the last loop iteration
    t,           \* lint: index of the tag being checked
    diags,       \* the diagnostic sink
    last         \* result of the last operation applied (per component)

vars == <<mode, pc, path, attr_value, source, config, i, idx, tag_name, attributes, tags,
          fault, prev, t, diags, last>>

-----------------------------------------------------------------------------
(* Text primitives *)

None == {}

Some(x) == {x}

UnwrapOr(o, d) == IF o = {} THEN d ELSE CHOOSE x \in o : TRUE

\* bytes[k]; "" stands for a byte outside the text, which no test matches
\* (every indexing the code does is listed in the reads of its iteration
\* and checked against the length there)
B(s, k) == IF 0 <= k /\ k < Len(s) THEN SubSeq(s, k + 1, k + 1) ELSE ""

Backslash == "\\"

\* The backtick byte (0x60).  A TLA+ string literal cannot hold it, so the
\* model's texts write it as the byte "~", which the code tests nowhere.
Backtick == "~"

\* &s[a..b]
Slice(s, a, b) == SubSeq(s, a + 1, b)

\* a Rust slice s[a..b] panics unless 0 <= a <= b <= len
SliceOk(s, a, b) == 0 <= a /\ a <= b /\ b <= Len(s)

StartsWith(s, p) == Len(p) <= Len(s) /\ Slice(s, 0, Len(p)) = p

EndsWith(s, p) == Len(p) <= Len(s) /\ Slice(s, Len(s) - Len(p), Len(s)) = p

\* str::find: offset of the first occurrence, -1 for None
Find(s, p) ==
    LET hits == {k \in 0..(Len(s) - Len(p)) : Slice(s, k, k + Len(p)) = p}
    IN  IF hits = {} THEN -1 ELSE CHOOSE k \in hits : \A h \in hits : k <= h

Contains(s, p) == Find(s, p) # -1

Lower == {"a","b","c","d","e","f","g","h","i","j","k","l","m",
          "n","o","p","q","r","s","t","u","v","w","x","y","z"}

Upper == {"A","B","C","D","E","F","G","H","I","J","K","L","M",
          "N","O","P","Q","R","S","T","U","V","W","X","Y","Z"}

Digit == {"0","1","2","3","4","5","6","7","8","9"}

is_space(b) == b \in {" ", "\n", "\t", "\r", "\f"}

is_tag_name_char(b) == b \in Lower \cup Upper \cup Digit \cup {"-", ":", "_"}


-----------------------------------------------------------------------------
(* helpers.rs: parse_tags *)

RECURSIVE SkipSpace(_, _)
\* while idx < bytes.len() && is_space(bytes[idx]) { idx += 1 }
SkipSpace(s, k) ==
    IF k < Len(s) /\ is_space(B(s, k)) THEN SkipSpace(s, k + 1) ELSE k

RECURSIVE SkipTagName(_, _)
\* while idx < bytes.len() && is_tag_name_char(bytes[idx]) { idx += 1 }
SkipTagName(s, k) ==
    IF k < Len(s) /\ is_tag_name_char(B(s, k)) THEN SkipTagName(s, k + 1) ELSE k

RECURSIVE SkipAttrName(_, _)
\* the attribute name run: up to whitespace, '=', '>' or '/'
SkipAttrName(s, k) ==
    IF k < Len(s) /\ ~is_space(B(s, k)) /\ B(s, k) \notin {"=", ">", "/"}
    THEN SkipAttrName(s, k + 1) ELSE k

RECURSIVE SkipQuoted(_, _, _)
\* while idx < bytes.len() && bytes[idx] != quote { idx += 1 }
SkipQuoted(s, k, quote) ==
    IF k < Len(s) /\ B(s, k) # quote THEN SkipQuoted(s, k + 1, quote) ELSE k

RECURSIVE SkipUnquoted(_, _)
\* while idx < bytes.len() && !is_space(bytes[idx]) && bytes[idx] != b'>'
SkipUnquoted(s, k) ==
    IF k < Len(s) /\ ~is_space(B(s, k)) /\ B(s, k) # ">"
    THEN SkipUnquoted(s, k + 1) ELSE k

\* the bounds test that guards the comment look-ahead: i + 3 < bytes.len()
CommentGuard(s, k) == k + 3 < Len(s)

\* a scan that knows no comments: the look-ahead never matches
IsCommentStart_Never(s, k) == FALSE

\* bytes[i + 1] == b'!' && bytes[i + 2] == b'-' && bytes[i + 3] == b'-'
IsCommentStart(s, k) ==
    CommentGuard(s, k) /\ B(s, k + 1) = "!" /\ B(s, k + 2) = "-" /\ B(s, k + 3) = "-"

\* the byte indices the comment look-ahead may index once its guard passed
CommentReads(s, k) ==
    IF ~CommentGuard(s, k) THEN {}
    ELSE {k + 1} \cup (IF B(s, k + 1) # "!" THEN {}
                       ELSE {k + 2} \cup (IF B(s, k + 2) # "-" THEN {} ELSE {k + 3}))

\* One iteration of the outer while i < bytes.len() loop, entered with
\* i < len.  kind tells how the iteration ends; reads and slices are the
\* byte indices and the slices of source it takes past its own guards.
ScanIter(s, i0) ==
    IF B(s, i0) # "<"
    THEN [kind |-> "skip", i |-> i0 + 1, idx |-> i0, name |-> "",
          reads |-> {i0}, slices |-> {}]
    ELSE IF IsCommentStart(s, i0)
    THEN LET end == Find(Slice(s, i0 + 4, Len(s)), "-->") IN
         IF end # -1
         THEN [kind |-> "comment", i |-> i0 + 4 + end + 3, idx |-> i0, name |-> "",
               reads |-> {i0} \cup CommentReads(s, i0),
               slices |-> {<<i0 + 4, Len(s)>>}]
         ELSE [kind |-> "comment_eof", i |-> i0, idx |-> i0, name |-> "",
               reads |-> {i0} \cup CommentReads(s, i0),
               slices |-> {<<i0 + 4, Len(s)>>}]
    ELSE LET a == i0 + 1
             b == IF a < Len(s) /\ B(s, a) = "/" THEN a + 1 ELSE a
             c == SkipSpace(s, b)
         IN  IF c < Len(s) /\ B(s, c) \in {"!", "?"}
             THEN LET end == Find(Slice(s, c, Len(s)), ">") IN
                  IF end # -1
                  THEN [kind |-> "decl", i |-> c + end + 1, idx |-> c, name |-> "",
                        reads |-> {i0, c} \cup CommentReads(s, i0), slices |-> {<<c, Len(s)>>}]
                  ELSE [kind |-> "decl_eof", i |-> i0, idx |-> c, name |-> "",
                        reads |-> {i0, c} \cup CommentReads(s, i0), slices |-> {<<c, Len(s)>>}]
             ELSE LET e == SkipTagName(s, c) IN
                  IF Slice(s, c, e) = ""
                  THEN [kind |-> "noname", i |-> i0 + 1, idx |-> e, name |-> "",
                        reads |-> {i0} \cup CommentReads(s, i0),
                        slices |-> {<<c, e>>}]
                  ELSE [kind |-> "open", i |-> i0, idx |-> e, name |-> Slice(s, c, e),
                        reads |-> {i0} \cup CommentReads(s, i0),
                        slices |-> {<<c, e>>}]

\* ParsedAttribute
Attr(name, value, ns, ne, vs, ve) ==
    [name |-> name, value |-> value, name_start |-> ns, name_end |-> ne,
     value_start |-> vs, value_end |-> ve]

\* AttrValue with the closing quote consumed without the end-of-input test
\* of line 177
AttrValue_NoEndCheck(s, w) ==
    IF w < Len(s) /\ B(s, w) = "="
    THEN LET v == SkipSpace(s, w + 1) IN
         IF v < Len(s)
         THEN IF B(s, v) \in {"\"", "'"}
              THEN LET quote == B(s, v)
                       val_start == v + 1
                       e == SkipQuoted(s, val_start, quote)
                   IN  [idx |-> e + 1,
                        value |-> Some(Slice(s, val_start, e)),
                        value_start |-> Some(val_start), value_end |-> Some(e),
                        slices |-> {<<val_start, e>>}]
              ELSE LET e == SkipUnquoted(s, v)
                   IN  [idx |-> e, value |-> Some(Slice(s, v, e)),
                        value_start |-> Some(v), value_end |-> Some(e),
                        slices |-> {<<v, e>>}]
         ELSE [idx |-> v, value |-> None, value_start |-> None,
               value_end |-> None, slices |-> {}]
    ELSE [idx |-> w, value |-> None, value_start |-> None, value_end |-> None,
          slices |-> {}]

\* AttrValue with the closing quote counted into the value span
AttrValue_QuoteInSpan(s, w) ==
    IF w < Len(s) /\ B(s, w) = "="
    THEN LET v == SkipSpace(s, w + 1) IN
         IF v < Len(s)
         THEN IF B(s, v) \in {"\"", "'"}
              THEN LET quote == B(s, v)
                       val_start == v + 1
                       e == SkipQuoted(s, val_start, quote)
                   IN  [idx |-> IF e < Len(s) /\ B(s, e) = quote THEN e + 1 ELSE e,
                        value |-> Some(Slice(s, val_start, e)),
                        value_start |-> Some(val_start),
                        value_end |-> Some(IF e < Len(s) THEN e + 1 ELSE e),
                        slices |-> {<<val_start, e>>}]
              ELSE LET e == SkipUnquoted(s, v)
                   IN  [idx |-> e, value |-> Some(Slice(s, v, e)),
                        value_start |-> Some(v), value_end |-> Some(e),
                        slices |-> {<<v, e>>}]
         ELSE [idx |-> v, value |-> None, value_start |-> None,
               value_end |-> None, slices |-> {}]
    ELSE [idx |-> w, value |-> None, value_start |-> None, value_end |-> None,
          slices |-> {}]

\* AttrValue with the cursor left at the start of an unquoted value
AttrValue_NoAdvance(s, w) ==
    IF w < Len(s) /\ B(s, w) = "="
    THEN LET v == SkipSpace(s, w + 1) IN
         IF v < Len(s)
         THEN IF B(s, v) \in {"\"", "'"}
              THEN LET quote == B(s, v)
                       val_start == v + 1
                       e == SkipQuoted(s, val_start, quote)
                   IN  [idx |-> IF e < Len(s) /\ B(s, e) = quote THEN e + 1 ELSE e,
                        value |-> Some(Slice(s, val_start, e)),
                        value_start |-> Some(val_start), value_end |-> Some(e),
                        slices |-> {<<val_start, e>>}]
              ELSE LET e == SkipUnquoted(s, v)
                   IN  [idx |-> v, value |-> Some(Slice(s, v, e)),
                        value_start |-> Some(v), value_end |-> Some(e),
                        slices |-> {<<v, e>>}]
         ELSE [idx |-> v, value |-> None, value_start |-> None,
               value_end |-> None, slices |-> {}]
    ELSE [idx |-> w, value |-> None, value_start |-> None, value_end |-> None,
          slices |-> {}]

\* The value part of an attribute, entered after the whitespace that follows
\* the name (lines 153-191): [idx, value, value_start, value_end, slices].
AttrValue(s, w) ==
    IF w < Len(s) /\ B(s, w) = "="
    THEN LET v == SkipSpace(s, w + 1) IN
         IF v < Len(s)
         THEN IF B(s, v) \in {"\"", "'"}
              THEN LET quote == B(s, v)
                       val_start == v + 1
                       e == SkipQuoted(s, val_start, quote)
                   IN  [idx |-> IF e < Len(s) /\ B(s, e) = quote THEN e + 1 ELSE e,
                        value |-> Some(Slice(s, val_start, e)),
                        value_start |-> Some(val_start), value_end |-> Some(e),
                        slices |-> {<<val_start, e>>}]
              ELSE LET e == SkipUnquoted(s, v)
                   IN  [idx |-> e, value |-> Some(Slice(s, v, e)),
                        value_start |-> Some(v), value_end |-> Some(e),
                        slices |-> {<<v, e>>}]
         ELSE [idx |-> v, value |-> None, value_start |-> None,
               value_end |-> None, slices |-> {}]
    ELSE [idx |-> w, value |-> None, value_start |-> None, value_end |-> None,
          slices |-> {}]

\* One iteration of the attribute loop (lines 102-201).
AttrIter(s, idx0, attrs) ==
    LET j == SkipSpace(s, idx0) IN
    IF j >= Len(s)
    THEN [kind |-> "eof", idx |-> j, attributes |-> attrs, reads |-> {}, slices |-> {}]
    ELSE IF B(s, j) = ">"
    THEN [kind |-> "close", idx |-> j + 1, attributes |-> attrs,
          reads |-> {j}, slices |-> {}]
    ELSE IF B(s, j) = "/"
    THEN [kind |-> "slash",
          idx |-> IF j + 1 < Len(s) /\ B(s, j + 1) = ">" THEN j + 2 ELSE j + 1,
          attributes |-> attrs, reads |-> {j}, slices |-> {}]
    ELSE LET attr_start == j
             attr_end == SkipAttrName(s, j)
         IN  IF attr_end = attr_start
             THEN [kind |-> "empty", idx |-> attr_end + 1, attributes |-> attrs,
                   reads |-> {j}, slices |-> {}]
             ELSE LET v == AttrValue(s, SkipSpace(s, attr_end)) IN
                  [kind |-> "attr", idx |-> v.idx,
                   attributes |-> Append(attrs,
                       Attr(Slice(s, attr_start, attr_end), v.value,
                            attr_start, attr_end, v.value_start, v.value_end)),
                   reads |-> {j},
                   slices |-> {<<attr_start, attr_end>>} \cup v.slices]

\* ParsedTag
Tag(name, attrs) == [name |-> name, attributes |-> attrs]

RECURSIVE AttrLoop(_, _, _)
\* the whole attribute loop of one tag
AttrLoop(s, idx0, attrs) ==
    LET r == AttrIter(s, idx0, attrs) IN
    IF r.kind \in {"eof", "close", "slash"} THEN r
    ELSE AttrLoop(s, r.idx, r.attributes)

RECURSIVE ParseFrom(_, _, _)
\* the outer loop of parse_tags from cursor i0 with the tags emitted so far
ParseFrom(s, i0, acc) ==
    IF i0 >= Len(s) THEN acc
    ELSE LET r == ScanIter(s, i0) IN
         IF r.kind \in {"comment_eof", "decl_eof"} THEN acc
         ELSE IF r.kind = "open"
         THEN LET a == AttrLoop(s, r.idx, <<>>) IN
              ParseFrom(s, a.idx, Append(acc, Tag(r.name, a.attributes)))
         ELSE ParseFrom(s, r.i, acc)

parse_tags(s) == ParseFrom(s, 0, <<>>)

-----------------------------------------------------------------------------
(* helpers.rs: the attribute-name decomposer *)

\* a namespace test that every name passes
is_datastar_attr_Any(name) == TRUE

\* name.starts_with("data-")
is_datastar_attr(name) == StartsWith(name, "data-")

\* the name up to its first "__", or the whole name
base_attr_name(name) ==
    LET pos == Find(name, "__") IN
    IF pos # -1 THEN Slice(name, 0, pos) ELSE name

RECURSIVE ExtractLoop_KeepEmpty(_, _)
\* ExtractLoop without the emptiness test on the last remainder
ExtractLoop_KeepEmpty(remaining, modifiers) ==
    LET pos == Find(remaining, "__") IN
    IF pos = -1 THEN modifiers
    ELSE LET rest == Slice(remaining, pos + 2, Len(remaining))
             next_pos == Find(rest, "__")
         IN  IF next_pos # -1
             THEN ExtractLoop_KeepEmpty(rest, Append(modifiers, Slice(rest, 0, next_pos)))
             ELSE Append(modifiers, rest)

RECURSIVE ExtractLoop(_, _)
\* the while let Some(pos) = remaining.find("__") loop of extract_modifiers
ExtractLoop(remaining, modifiers) ==
    LET pos == Find(remaining, "__") IN
    IF pos = -1 THEN modifiers
    ELSE LET rest == Slice(remaining, pos + 2, Len(remaining))
             next_pos == Find(rest, "__")
         IN  IF next_pos # -1
             THEN ExtractLoop(rest, Append(modifiers, Slice(rest, 0, next_pos)))
             ELSE IF rest # "" THEN Append(modifiers, rest) ELSE modifiers

extract_modifiers(name) == ExtractLoop(name, <<>>)

-----------------------------------------------------------------------------
(* Diagnostics *)

\* Span::new(start, end)
Span(start, end) == [start |-> start, end |-> end]

\* Diagnostic { rule, message, enforced: false, span }
Diagnostic(rule, message, span) ==
    [rule |-> rule, message |-> message, enforced |-> FALSE, span |-> span]

-----------------------------------------------------------------------------
(* validation.rs *)

is_alpine_or_vue_attr(name) ==
    \/ StartsWith(name, "x-")
    \/ StartsWith(name, "x:")
    \/ StartsWith(name, "v-")
    \/ StartsWith(name, "@")
    \/ StartsWith(name, ":")

RECURSIVE AlpineVueFrom(_, _, _)
\* the attribute loop of check_alpine_vue from attribute k
AlpineVueFrom(tag, k, ds) ==
    IF k > Len(tag.attributes) THEN ds
    ELSE LET attr == tag.attributes[k] IN
         AlpineVueFrom(tag, k + 1,
           IF is_alpine_or_vue_attr(attr.name)
           THEN Append(ds, Diagnostic("datastar/no-alpine-vue-attrs",
                    "Disallowed Alpine/Vue-style attribute: " \o attr.name,
                    Span(attr.name_start, attr.name_end)))
           ELSE ds)

check_alpine_vue(tag, ds) == AlpineVueFrom(tag, 1, ds)

\* requires_value on the whole name, modifiers included
requires_value_WholeName(name) ==
    \/ name \in {"data-show", "data-text", "data-html", "data-class",
                 "data-effect", "data-computed", "data-replace-url"}
    \/ StartsWith(name, "data-on:")
    \/ StartsWith(name, "data-attr:")
    \/ StartsWith(name, "data-class:")
    \/ StartsWith(name, "data-style:")
    \/ StartsWith(name, "data-computed:")

requires_value(name) ==
    LET base == base_attr_name(name) IN
    \/ base \in {"data-show", "data-text", "data-html", "data-class",
                 "data-effect", "data-computed", "data-replace-url"}
    \/ StartsWith(base, "data-on:")
    \/ StartsWith(base, "data-attr:")
    \/ StartsWith(base, "data-class:")
    \/ StartsWith(base, "data-style:")
    \/ StartsWith(base, "data-computed:")

RECURSIVE RequiredValuesFrom(_, _, _)
\* the attribute loop of check_required_values from attribute k
RequiredValuesFrom(tag, k, ds) ==
    IF k > Len(tag.attributes) THEN ds
    ELSE LET attr == tag.attributes[k]
             has_value == \E v \in attr.value : v # ""
         IN  RequiredValuesFrom(tag, k + 1,
               IF requires_value(attr.name) /\ ~has_value
               THEN Append(ds, Diagnostic("datastar/require-value",
                        "Datastar attribute '" \o attr.name \o "' requires a value",
                        Span(attr.name_start, attr.name_end)))
               ELSE ds)

\* check_required_values putting what it finds in front of the sink
check_required_values_Prepend(tag, ds) == RequiredValuesFrom(tag, 1, <<>>) \o ds

check_required_values(tag, ds) == RequiredValuesFrom(tag, 1, ds)

UpperBytes == "ABCDEFGHIJKLMNOPQRSTUVWXYZ"

LowerBytes == "abcdefghijklmnopqrstuvwxyz"

RECURSIVE to_lowercase(_)
\* str::to_lowercase on ASCII text
to_lowercase(s) ==
    IF s = "" THEN ""
    ELSE LET b == B(s, 0)
             k == Find(UpperBytes, b)
         IN  (IF k # -1 THEN B(LowerBytes, k) ELSE b)
               \o to_lowercase(Slice(s, 1, Len(s)))

RECURSIVE ForOnTemplateFrom(_, _, _)
\* the attribute loop of check_for_on_template from attribute k
ForOnTemplateFrom(tag, k, ds) ==
    IF k > Len(tag.attributes) THEN ds
    ELSE LET attr == tag.attributes[k] IN
         ForOnTemplateFrom(tag, k + 1,
           IF attr.name = "data-for" /\ to_lowercase(tag.name) # "template"
           THEN Append(ds, Diagnostic("datastar/for-template",
                    "data-for must be on a <template> element, found on <"
                      \o tag.name \o ">",
                    Span(attr.name_start, attr.name_end)))
           ELSE ds)

check_for_on_template(tag, ds) == ForOnTemplateFrom(tag, 1, ds)

-----------------------------------------------------------------------------
(* typos.rs *)

TYPOS == <<
    <<"data-on-click", "data-on:click">>,
    <<"data-on-submit", "data-on:submit">>,
    <<"data-on-input", "data-on:input">>,
    <<"data-on-change", "data-on:change">>,
    <<"data-on-keydown", "data-on:keydown">>,
    <<"data-on-keyup", "data-on:keyup">>,
    <<"data-on-focus", "data-on:focus">>,
    <<"data-on-blur", "data-on:blur">>,
    <<"data-on-mouseenter", "data-on:mouseenter">>,
    <<"data-on-mouseleave", "data-on:mouseleave">>,
    <<"data-bind-value", "data-bind:value">>,
    <<"data-bind-checked", "data-bind:checked">>,
    <<"data-attr-disabled", "data-attr:disabled">>,
    <<"data-attr-href", "data-attr:href">>,
    <<"data-class-active", "data-class:active">>,
    <<"data-style-color", "data-style:color">>,
    <<"data-intersects", "data-on-intersect">>,
    <<"data-intersect", "data-on-intersect">>,
    <<"data-onload", "data-on:load or data-init">>,
    <<"data-onclick", "data-on:click">>,
    <<"data-onsubmit", "data-on:submit">>,
    <<"data-signal", "data-signals">>,
    <<"data-visible", "data-show">>,
    <<"data-hidden", "data-show (with negation)">>,
    <<"data-content", "data-text or data-html">>,
    <<"data-value", "data-bind">>,
    <<"data-model", "data-bind">>,
    <<"data-if", "data-show">>,
    <<"data-else", "data-show (with negation)">>,
    <<"data-v-show", "data-show">>,
    <<"data-v-if", "data-show">>,
    <<"data-x-show", "data-show">>,
    <<"data-x-if", "data-show">> >>

is_valid_hyphen_event(name) ==
    name \in {"data-on-intersect", "data-on-interval", "data-on-signal-patch",
              "data-on-raf", "data-on-resize", "data-on-load"}

check_prefix_separator(attr, wrong_prefix, correct_prefix, ds) ==
    LET base_name == LET pos == Find(attr.name, "__") IN
                     IF pos # -1 THEN Slice(attr.name, 0, pos) ELSE attr.name
    IN  IF StartsWith(base_name, wrong_prefix)
        THEN LET suffix == Slice(base_name, Len(wrong_prefix), Len(base_name)) IN
             Append(ds, Diagnostic("datastar/typo",
                 "Use colon separator: '" \o correct_prefix \o suffix
                   \o "' instead of '" \o wrong_prefix \o suffix \o "'",
                 Span(attr.name_start, attr.name_end)))
        ELSE ds

\* the first TYPOS entry whose typo is base_name, 0 when there is none
TypoIndex(base_name) ==
    LET hits == {k \in 1..Len(TYPOS) : TYPOS[k][1] = base_name} IN
    IF hits = {} THEN 0 ELSE CHOOSE k \in hits : \A h \in hits : k <= h

\* the loop body of check_typos without lines 79-81: the separator checks
\* run after a table hit as well
TypoAttr_NoSkip(attr, ds) ==
    IF ~StartsWith(attr.name, "data-") THEN ds
    ELSE LET pos == Find(attr.name, "__")
             base_name == IF pos # -1 THEN Slice(attr.name, 0, pos) ELSE attr.name
             hit == TypoIndex(base_name)
             event_name == Slice(base_name, 8, Len(base_name))
             dh == IF hit # 0
                   THEN Append(ds, Diagnostic("datastar/typo",
                            "Possible typo: '" \o TYPOS[hit][1] \o "' - did you mean '"
                              \o TYPOS[hit][2] \o "'?",
                            Span(attr.name_start, attr.name_end)))
                   ELSE ds
             d0 == IF StartsWith(base_name, "data-on-")
                      /\ ~is_valid_hyphen_event(base_name)
                   THEN Append(dh, Diagnostic("datastar/typo",
                            "Use colon for events: 'data-on:" \o event_name
                              \o "' instead of 'data-on-" \o event_name \o "'",
                            Span(attr.name_start, attr.name_end)))
                   ELSE dh
             d1 == check_prefix_separator(attr, "data-bind-", "data-bind:", d0)
             d2 == check_prefix_separator(attr, "data-attr-", "data-attr:", d1)
             d3 == check_prefix_separator(attr, "data-class-", "data-class:", d2)
             d4 == check_prefix_separator(attr, "data-style-", "data-style:", d3)
         IN  check_prefix_separator(attr, "data-indicator-", "data-indicator:", d4)

\* the body of check_typos' attribute loop for one attribute (lines 51-102)
TypoAttr(attr, ds) ==
    IF ~StartsWith(attr.name, "data-") THEN ds
    ELSE LET pos == Find(attr.name, "__")
             base_name == IF pos # -1 THEN Slice(attr.name, 0, pos) ELSE attr.name
             hit == TypoIndex(base_name)
         IN  IF hit # 0
             THEN Append(ds, Diagnostic("datastar/typo",
                      "Possible typo: '" \o TYPOS[hit][1] \o "' - did you mean '"
                        \o TYPOS[hit][2] \o "'?",
                      Span(attr.name_start, attr.name_end)))
             ELSE LET event_name == Slice(base_name, 8, Len(base_name))
                      d0 == IF StartsWith(base_name, "data-on-")
                               /\ ~is_valid_hyphen_event(base_name)
                            THEN Append(ds, Diagnostic("datastar/typo",
                                     "Use colon for events: 'data-on:" \o event_name
                                       \o "' instead of 'data-on-" \o event_name \o "'",
                                     Span(attr.name_start, attr.name_end)))
                            ELSE ds
                      d1 == check_prefix_separator(attr, "data-bind-", "data-bind:", d0)
                      d2 == check_prefix_separator(attr, "data-attr-", "data-attr:", d1)
                      d3 == check_prefix_separator(attr, "data-class-", "data-class:", d2)
                      d4 == check_prefix_separator(attr, "data-style-", "data-style:", d3)
                  IN  check_prefix_separator(attr, "data-indicator-",
                                             "data-indicator:", d4)

RECURSIVE TyposFrom(_, _, _)
\* the attribute loop of check_typos from attribute k
TyposFrom(tag, k, ds) ==
    IF k > Len(tag.attributes) THEN ds
    ELSE TyposFrom(tag, k + 1, TypoAttr(tag.attributes[k], ds))

\* check_typos that reports only into an empty sink
check_typos_FirstOnly(tag, ds) ==
    IF ds # <<>> THEN ds ELSE TyposFrom(tag, 1, ds)

check_typos(tag, ds) == TyposFrom(tag, 1, ds)

-----------------------------------------------------------------------------
(* modifiers.rs *)

EVENT_MODIFIERS ==
    <<"once", "passive", "capture", "case", "delay", "debounce", "throttle",
      "viewtransition", "window", "outside", "prevent", "stop">>

INTERSECT_MODIFIERS ==
    <<"once", "exit", "half", "full", "threshold", "delay", "debounce",
      "throttle", "viewtransition">>

PERSIST_MODIFIERS == <<"session">>

INIT_MODIFIERS == <<"delay", "viewtransition">>

CASE_MODIFIERS == <<"camel", "kebab", "snake", "pascal">>

\* slice::contains
SeqContains(seq, x) == \E k \in 1..Len(seq) : seq[k] = x

RECURSIVE JoinWith(_, _)
\* [&str]::join(sep)
JoinWith(seq, sep) ==
    IF seq = <<>> THEN ""
    ELSE IF Len(seq) = 1 THEN seq[1]
    ELSE seq[1] \o sep \o JoinWith(Tail(seq), sep)

get_valid_modifiers(base_attr) ==
    IF StartsWith(base_attr, "data-on:") THEN EVENT_MODIFIERS
    ELSE IF base_attr = "data-on-intersect" THEN INTERSECT_MODIFIERS
    ELSE IF base_attr = "data-persist" THEN PERSIST_MODIFIERS
    ELSE IF base_attr = "data-init" THEN INIT_MODIFIERS
    ELSE IF base_attr = "data-on-interval" \/ base_attr = "data-on-signal-patch"
    THEN <<"delay", "debounce", "throttle", "viewtransition">>
    ELSE IF base_attr = "data-on-raf" \/ base_attr = "data-on-resize"
    THEN <<"debounce", "throttle">>
    ELSE IF base_attr = "data-effect" THEN <<"viewtransition">>
    ELSE IF \/ StartsWith(base_attr, "data-signals")
            \/ StartsWith(base_attr, "data-computed")
            \/ StartsWith(base_attr, "data-ref")
            \/ StartsWith(base_attr, "data-bind")
            \/ StartsWith(base_attr, "data-indicator")
    THEN <<"case">>
    ELSE <<>>

RECURSIVE SkipDigits(_, _)
\* the end of the run of decimal digits of s that starts at k
SkipDigits(s, k) ==
    IF k < Len(s) /\ B(s, k) \in Digit THEN SkipDigits(s, k + 1) ELSE k

\* str::parse::<f64>().is_ok() on ASCII text: an optional sign, then inf,
\* infinity or nan in any case, or digits with an optional point and an
\* optional exponent, at least one digit in the mantissa
ParsesAsF64(s) ==
    LET signed == s # "" /\ B(s, 0) \in {"+", "-"}
        u == IF signed THEN Slice(s, 1, Len(s)) ELSE s
        a == SkipDigits(u, 0)
        dot == a < Len(u) /\ B(u, a) = "."
        b == IF dot THEN SkipDigits(u, a + 1) ELSE a
        digits == a + (IF dot THEN b - (a + 1) ELSE 0)
        c == IF b + 1 < Len(u) /\ B(u, b + 1) \in {"+", "-"} THEN b + 2 ELSE b + 1
        d == SkipDigits(u, c)
    IN  \/ to_lowercase(u) \in {"inf", "infinity", "nan"}
        \/ /\ digits > 0
           /\ \/ b = Len(u)
              \/ B(u, b) \in {"e", "E"} /\ d > c /\ d = Len(u)

is_timing_modifier(modifier) ==
    \/ EndsWith(modifier, "ms")
    \/ EndsWith(modifier, "s")
    \/ modifier = "leading"
    \/ modifier = "trailing"
    \/ modifier = "notrailing"
    \/ modifier = "noleading"
    \/ ParsesAsF64(modifier)

\* split(sep).next() that does not split: the whole text
BeforeFirst_Whole(s, sep) == s

\* modifier.split('.').next(): the text before the first '.'
BeforeFirst(s, sep) ==
    LET k == Find(s, sep) IN IF k = -1 THEN s ELSE Slice(s, 0, k)

\* the body of the modifier loop with the case token looked up in the
\* allow-list of the family before its value is validated
ModifierDiag_CaseViaAllowList(attr, base, valid_modifiers, modifier, ds) ==
    LET mod_base == BeforeFirst(modifier, ".") IN
    IF ~SeqContains(valid_modifiers, mod_base) /\ ~is_timing_modifier(mod_base)
    THEN Append(ds, Diagnostic("datastar/invalid-modifier",
             "Invalid modifier '" \o modifier \o "' for '" \o base
               \o "'. Valid modifiers: " \o JoinWith(valid_modifiers, ", "),
             Span(attr.name_start, attr.name_end)))
    ELSE IF StartsWith(modifier, "case.")
            /\ ~SeqContains(CASE_MODIFIERS, Slice(modifier, 5, Len(modifier)))
    THEN Append(ds, Diagnostic("datastar/invalid-modifier",
             "Invalid case modifier '" \o Slice(modifier, 5, Len(modifier))
               \o "'. Valid options: camel, kebab, snake, pascal",
             Span(attr.name_start, attr.name_end)))
    ELSE ds

\* the body of the for modifier in modifiers loop (lines 59-96)
ModifierDiag(attr, base, valid_modifiers, modifier, ds) ==
    LET mod_base == BeforeFirst(modifier, ".") IN
    IF mod_base = "case"
    THEN IF StartsWith(modifier, "case.")
         THEN LET case_value == Slice(modifier, 5, Len(modifier)) IN
              IF ~SeqContains(CASE_MODIFIERS, case_value)
              THEN Append(ds, Diagnostic("datastar/invalid-modifier",
                       "Invalid case modifier '" \o case_value
                         \o "'. Valid options: camel, kebab, snake, pascal",
                       Span(attr.name_start, attr.name_end)))
              ELSE ds
         ELSE ds
    ELSE IF ~SeqContains(valid_modifiers, mod_base) /\ ~is_timing_modifier(mod_base)
         THEN Append(ds, Diagnostic("datastar/invalid-modifier",
                  "Invalid modifier '" \o modifier \o "' for '" \o base
                    \o "'. Valid modifiers: " \o JoinWith(valid_modifiers, ", "),
                  Span(attr.name_start, attr.name_end)))
         ELSE ds

RECURSIVE ModifiersOfAttr(_, _, _, _, _)
\* the modifier loop of one attribute from modifier m
ModifiersOfAttr(attr, base, modifiers, m, ds) ==
    IF m > Len(modifiers) THEN ds
    ELSE ModifiersOfAttr(attr, base, modifiers, m + 1,
           ModifierDiag(attr, base, get_valid_modifiers(base), modifiers[m], ds))

RECURSIVE ModifiersFrom(_, _, _)
\* the attribute loop of check_modifiers from attribute k
ModifiersFrom(tag, k, ds) ==
    IF k > Len(tag.attributes) THEN ds
    ELSE LET attr == tag.attributes[k] IN
         ModifiersFrom(tag, k + 1,
           IF ~is_datastar_attr(attr.name) THEN ds
           ELSE ModifiersOfAttr(attr, base_attr_name(attr.name),
                                extract_modifiers(attr.name), 1, ds))

check_modifiers(tag, ds) == ModifiersFrom(tag, 1, ds)

-----------------------------------------------------------------------------
(* actions.rs *)

SSE_ACTIONS == <<"@get", "@post", "@patch", "@put", "@delete">>

\* the Pro actions without @fit
PRO_ACTIONS_OnlyClipboard == <<"@clipboard">>

PRO_ACTIONS == <<"@clipboard", "@fit">>

ALL_ACTIONS == <<"@get", "@post", "@patch", "@put", "@delete", "@clipboard", "@fit">>

is_action_char(b) == b \in Lower \cup Upper

RECURSIVE SkipActionName(_, _)
\* while i < bytes.len() && is_action_char(bytes[i]) { i += 1 }
SkipActionName(s, k) ==
    IF k < Len(s) /\ is_action_char(B(s, k)) THEN SkipActionName(s, k + 1) ELSE k

RECURSIVE SkipBlanks(_, _)
\* while i < bytes.len() && bytes[i] == b' ' { i += 1 }
SkipBlanks(s, k) ==
    IF k < Len(s) /\ B(s, k) = " " THEN SkipBlanks(s, k + 1) ELSE k

RECURSIVE SimilarFrom(_, _)
\* the loop of find_similar_action from ALL_ACTIONS[k]: Some(action) or None
SimilarFrom(lower, k) ==
    IF k > Len(ALL_ACTIONS) THEN None
    ELSE LET action == ALL_ACTIONS[k] IN
         IF to_lowercase(action) = lower THEN Some(action)
         ELSE IF Contains(lower, Slice(action, 1, Len(action))) THEN Some(action)
         ELSE SimilarFrom(lower, k + 1)

find_similar_action(name) == SimilarFrom(to_lowercase(name), 1)

RECURSIVE SkipString_NoEscape(_, _, _)
\* SkipString without lines 126-128: a backslash escapes nothing
SkipString_NoEscape(s, k, quote) ==
    IF k < Len(s) /\ B(s, k) # quote
    THEN SkipString_NoEscape(s, k + 1, quote)
    ELSE k

RECURSIVE SkipString(_, _, _)
\* the string-skipping loop (lines 125-130): the offset of the closing
\* quote, or an offset >= len when the string is not closed
SkipString(s, k, quote) ==
    IF k < Len(s) /\ B(s, k) # quote
    THEN SkipString(s, IF B(s, k) = Backslash /\ k + 1 < Len(s) THEN k + 2 ELSE k + 1, quote)
    ELSE k

RECURSIVE ParenScan(_, _, _)
\* the loop while i < bytes.len() && depth > 0 (lines 117-135)
ParenScan(s, k, depth) ==
    IF k < Len(s) /\ depth > 0
    THEN LET b == B(s, k) IN
         IF b = "(" THEN ParenScan(s, k + 1, depth + 1)
         ELSE IF b = ")" THEN ParenScan(s, k + 1, depth - 1)
         ELSE IF b \in {"\"", "'", Backtick}
         THEN ParenScan(s, SkipString(s, k + 1, b) + 1, depth)
         ELSE ParenScan(s, k + 1, depth)
    ELSE [i |-> k, depth |-> depth]

\* the bytes str::trim removes, among ASCII
IsTrimmed(b) == b \in {" ", "\n", "\t", "\r", "\f"}

RECURSIVE TrimStart(_)
TrimStart(s) ==
    IF s # "" /\ IsTrimmed(B(s, 0)) THEN TrimStart(Slice(s, 1, Len(s))) ELSE s

RECURSIVE TrimEnd(_)
TrimEnd(s) ==
    IF s # "" /\ IsTrimmed(B(s, Len(s) - 1))
    THEN TrimEnd(Slice(s, 0, Len(s) - 1)) ELSE s

\* str::trim
Trim(s) == TrimEnd(TrimStart(s))

\* looks_like_url takes trimmed[1..trimmed.len() - 1] when trimmed starts and
\* ends with the same quote: the bounds of that slice
UrlInnerSlice(trimmed) == <<1, Len(trimmed) - 1>>

\* the quoted-string test of looks_like_url (lines 217-219)
IsQuoted(trimmed) ==
    \/ StartsWith(trimmed, "'") /\ EndsWith(trimmed, "'")
    \/ StartsWith(trimmed, "\"") /\ EndsWith(trimmed, "\"")
    \/ StartsWith(trimmed, Backtick) /\ EndsWith(trimmed, Backtick)

\* looks_like_url: [result, panic]; panic when the inner slice is out of range
looks_like_url(value) ==
    LET trimmed == Trim(value) IN
    IF StartsWith(trimmed, "/") THEN [result |-> TRUE, panic |-> FALSE]
    ELSE IF IsQuoted(trimmed)
    THEN LET sl == UrlInnerSlice(trimmed) IN
         IF SliceOk(trimmed, sl[1], sl[2])
         THEN [result |-> StartsWith(Slice(trimmed, sl[1], sl[2]), "/"),
               panic |-> FALSE]
         ELSE [result |-> FALSE, panic |-> TRUE]
    ELSE [result |-> FALSE, panic |-> FALSE]

looks_like_expression(value) ==
    LET trimmed == Trim(value) IN
    \/ Contains(trimmed, "$")
    \/ Contains(trimmed, "+")
    \/ StartsWith(trimmed, Backtick)

\* action-syntax diagnostics pointing at the attribute's name
ActionSpan_Name(attr) == Span(attr.name_start, attr.name_end)

\* the span every action-syntax diagnostic carries
ActionSpan(attr) ==
    Span(UnwrapOr(attr.value_start, attr.name_start),
         UnwrapOr(attr.value_end, attr.name_end))

\* One iteration of the loop while i < bytes.len() of check_action_syntax,
\* entered with i0 < len: the cursor and the sink after it, whether it
\* panicked, and what it met (kind), with the action name, the offset of
\* the opening parenthesis, the depth the paren scan ended at and the first
\* argument when the iteration got that far.
ActionIter(value, attr, i0, ds) ==
    LET none == [i |-> i0 + 1, diags |-> ds, panic |-> FALSE, kind |-> "skip",
                 name |-> "", paren_start |-> -1, depth |-> -1, first_arg |-> "",
                 slices |-> {}]
    IN
    IF B(value, i0) # "@" THEN none
    ELSE
    LET action_start == i0
        e == SkipActionName(value, i0 + 1)
        action_name == Slice(value, action_start, e)
        is_sse == SeqContains(SSE_ACTIONS, action_name)
        is_pro == SeqContains(PRO_ACTIONS, action_name)
        at == [none EXCEPT !.i = e, !.name = action_name,
                           !.slices = {<<action_start, e>>}]
    IN
    IF Len(action_name) <= 1 THEN [at EXCEPT !.kind = "bare"]
    ELSE IF ~is_sse /\ ~is_pro
    THEN LET suggestion == find_similar_action(action_name) IN
         [at EXCEPT !.kind = "unknown",
                    !.diags = IF suggestion # None
                              THEN Append(ds, Diagnostic("datastar/action-syntax",
                                       "Unknown action '" \o action_name
                                         \o "'. Did you mean '"
                                         \o UnwrapOr(suggestion, "") \o "'?",
                                       ActionSpan(attr)))
                              ELSE ds]
    ELSE
    LET p == SkipBlanks(value, e) IN
    IF p >= Len(value) \/ B(value, p) # "("
    THEN [at EXCEPT !.kind = "noparen", !.i = p,
                    !.diags = Append(ds, Diagnostic("datastar/action-syntax",
                                  "Action '" \o action_name
                                    \o "' requires parentheses, e.g., "
                                    \o action_name \o "('/path')",
                                  ActionSpan(attr)))]
    ELSE
    LET paren_start == p
        scan == ParenScan(value, p + 1, 1)
        found == [at EXCEPT !.i = scan.i, !.paren_start = paren_start,
                            !.depth = scan.depth]
    IN
    IF scan.depth # 0
    THEN [found EXCEPT !.kind = "unclosed",
                       !.diags = Append(ds, Diagnostic("datastar/action-syntax",
                                     "Unclosed parentheses in '" \o action_name
                                       \o "' call",
                                     ActionSpan(attr)))]
    ELSE IF ~is_sse THEN [found EXCEPT !.kind = "pro"]
    ELSE
    LET args == Slice(value, paren_start + 1, scan.i - 1)
        first_arg == Trim(BeforeFirst(args, ","))
        url == looks_like_url(first_arg)
        call == [found EXCEPT !.first_arg = first_arg,
                              !.slices = @ \cup {<<paren_start + 1, scan.i - 1>>}]
    IN
    IF first_arg = ""
    THEN [call EXCEPT !.kind = "no_url",
                      !.diags = Append(ds, Diagnostic("datastar/action-syntax",
                                    "SSE action '" \o action_name
                                      \o "' requires a URL argument, e.g., "
                                      \o action_name \o "('/api/endpoint')",
                                    ActionSpan(attr)))]
    ELSE IF url.panic THEN [call EXCEPT !.kind = "panic", !.panic = TRUE]
    ELSE IF ~url.result /\ ~looks_like_expression(first_arg)
    THEN [call EXCEPT !.kind = "bad_url",
                      !.diags = Append(ds, Diagnostic("datastar/action-syntax",
                                    "SSE action '" \o action_name
                                      \o "' URL should start with '/' or be a string/expression, got: "
                                      \o first_arg,
                                    ActionSpan(attr)))]
    ELSE [call EXCEPT !.kind = "url_ok"]

RECURSIVE ActionSyntaxFrom(_, _, _, _)
\* check_action_syntax from cursor i0: [diags, panic]
ActionSyntaxFrom(value, attr, i0, ds) ==
    IF i0 >= Len(value) THEN [diags |-> ds, panic |-> FALSE]
    ELSE LET r == ActionIter(value, attr, i0, ds) IN
         IF r.panic THEN [diags |-> r.diags, panic |-> TRUE]
         ELSE ActionSyntaxFrom(value, attr, r.i, r.diags)

check_action_syntax(value, attr, ds) == ActionSyntaxFrom(value, attr, 0, ds)

RECURSIVE ActionsFrom(_, _, _)
\* the attribute loop of check_actions from attribute k: [diags, panic]
ActionsFrom(tag, k, ds) ==
    IF k > Len(tag.attributes) THEN [diags |-> ds, panic |-> FALSE]
    ELSE LET attr == tag.attributes[k] IN
         IF ~is_datastar_attr(attr.name) \/ attr.value = None
         THEN ActionsFrom(tag, k + 1, ds)
         ELSE LET r == check_action_syntax(UnwrapOr(attr.value, ""), attr, ds) IN
              IF r.panic THEN r ELSE ActionsFrom(tag, k + 1, r.diags)

check_actions(tag, ds) == ActionsFrom(tag, 1, ds)

-----------------------------------------------------------------------------
(* Bounded input texts *)

MaxSrcToks == 4

MaxSrcChunks == 5

\* the pieces tokenizer inputs are built from: every delimiter parse_tags
\* tests for, a name byte, and the openers of tags, declarations and comments
SrcToks == {"<", "<a ", "<!", "<!--", "-->", ">", "/", " ", "=", "\"", "b"}

RECURSIVE Texts(_, _)
\* all concatenations of at most n pieces of toks
Texts(toks, n) ==
    IF n = 0 THEN {""}
    ELSE {x \o y : x \in Texts(toks, n - 1), y \in toks \cup {""}}

\* larger pieces, so that tags with several attributes and several tags
\* occur within the bound
SrcChunks == {"<a b", "=c", "=\"c\"", " d", ">", "/"}

MaxNameToks == 7

\* the pieces attribute names are built from: two name bytes and the byte
\* the modifier delimiter "__" is made of
NameToks == {"d", "m", "_"}

\* the tokenizer inputs: either kind of concatenation
IsParseSource(s) ==
    \/ s \in Texts(SrcToks, MaxSrcToks)
    \/ s \in Texts(SrcChunks, MaxSrcChunks)

DefaultConfig ==
    [check_alpine_vue |-> TRUE, check_required_values |-> TRUE,
     check_typos |-> TRUE, check_modifiers |-> TRUE, check_actions |-> TRUE,
     check_for_template |-> TRUE]

-----------------------------------------------------------------------------
(* parse_tags, one loop iteration per step *)

InitParse ==
    /\ mode = "parse"
    /\ pc = "scan"
    /\ path = ""
    /\ attr_value = ""
    /\ IsParseSource(source)
    /\ config = DefaultConfig
    /\ i = 0
    /\ idx = 0
    /\ tag_name = ""
    /\ attributes = <<>>
    /\ tags = <<>>
    /\ fault = FALSE
    /\ prev = 0
    /\ t = 0
    /\ diags = <<>>
    /\ last = "init"

\* an index or slice of the iteration r falls outside the source
IterFault(s, r) ==
    \/ \E k \in r.reads : k < 0 \/ k >= Len(s)
    \/ \E sl \in r.slices : ~SliceOk(s, sl[1], sl[2])

\* an outer iteration that moves i on and loops: a non-'<' byte, a closed
\* comment, a closed declaration, or a '<' followed by no tag name
ScanContinue ==
    /\ mode = "parse" /\ pc = "scan" /\ i < Len(source)
    /\ LET r == ScanIter(source, i) IN
        /\ r.kind \in {"skip", "comment", "decl", "noname"}
        /\ i' = r.i
        /\ prev' = i
        /\ last' = r.kind
        /\ fault' = (fault \/ IterFault(source, r))
    /\ UNCHANGED <<mode, pc, path, attr_value, source, config, idx, tag_name, attributes,
                   tags, t, diags>>

\* an unterminated comment or declaration: break
ScanBreak ==
    /\ mode = "parse" /\ pc = "scan" /\ i < Len(source)
    /\ LET r == ScanIter(source, i) IN
        /\ r.kind \in {"comment_eof", "decl_eof"}
        /\ pc' = "done"
        /\ prev' = i
        /\ last' = r.kind
        /\ fault' = (fault \/ IterFault(source, r))
    /\ UNCHANGED <<mode, path, attr_value, source, config, i, idx, tag_name, attributes,
                   tags, t, diags>>

\* a tag name was read: enter the attribute loop
ScanOpen ==
    /\ mode = "parse" /\ pc = "scan" /\ i < Len(source)
    /\ LET r == ScanIter(source, i) IN
        /\ r.kind = "open"
        /\ pc' = "attrs"
        /\ idx' = r.idx
        /\ tag_name' = r.name
        /\ attributes' = <<>>
        /\ prev' = i
        /\ last' = r.kind
        /\ fault' = (fault \/ IterFault(source, r))
    /\ UNCHANGED <<mode, path, attr_value, source, config, i, tags, t, diags>>

\* an attribute-loop iteration that loops again: an attribute was pushed, or
\* a stray '=' was stepped over
AttrContinue ==
    /\ mode = "parse" /\ pc = "attrs"
    /\ LET r == AttrIter(source, idx, attributes) IN
        /\ r.kind \in {"attr", "empty"}
        /\ idx' = r.idx
        /\ attributes' = r.attributes
        /\ prev' = idx
        /\ last' = r.kind
        /\ fault' = (fault \/ IterFault(source, r))
    /\ UNCHANGED <<mode, pc, path, attr_value, source, config, i, tag_name, tags, t, diags>>

\* the attribute loop breaks ('>', '/', end of input): the tag is pushed and
\* the outer scan resumes at idx
AttrExit ==
    /\ mode = "parse" /\ pc = "attrs"
    /\ LET r == AttrIter(source, idx, attributes) IN
        /\ r.kind \in {"eof", "close", "slash"}
        /\ tags' = Append(tags, Tag(tag_name, r.attributes))
        /\ idx' = r.idx
        /\ i' = r.idx
        /\ pc' = "scan"
        /\ prev' = i
        /\ last' = r.kind
        /\ fault' = (fault \/ IterFault(source, r))
    /\ UNCHANGED <<mode, path, attr_value, source, config, tag_name, attributes, t, diags>>

\* i >= bytes.len(): the outer loop ends and tags is returned
ScanEnd ==
    /\ mode = "parse" /\ pc = "scan" /\ i >= Len(source)
    /\ pc' = "done"
    /\ last' = "return"
    /\ UNCHANGED <<mode, path, attr_value, source, config, i, idx, tag_name, attributes,
                   tags, fault, prev, t, diags>>

NextParse ==
    \/ ScanContinue
    \/ ScanBreak
    \/ ScanOpen
    \/ AttrContinue
    \/ AttrExit
    \/ ScanEnd

SpecParse == InitParse /\ [][NextParse]_vars

-----------------------------------------------------------------------------
(* Claims about parse_tags *)

\* the tags emitted so far, with the tag under construction
TagsSoFar == IF pc = "attrs" THEN Append(tags, Tag(tag_name, attributes)) ELSE tags

\* C2: parse_tags never indexes or slices past the end of the input, the
\* cursors stay within the input, every iteration of the outer scan and of
\* the attribute loop leaves its cursor strictly further than it found it
\* (so each loop runs at most Len(source) times), and the call returns the
\* tags read.
C2_Totality ==
    mode = "parse" =>
      /\ ~fault
      /\ 0 <= i /\ i <= Len(source) /\ 0 <= idx /\ idx <= Len(source)
      /\ last \in {"skip", "comment", "decl", "noname"} => i > prev
      /\ last \in {"attr", "empty"} => idx > prev
      /\ last = "open" => idx > prev
      /\ last \in {"eof", "close", "slash"} => i > prev
      /\ pc = "done" => tags = parse_tags(source)

\* parse_tags returned on an input that ends inside a quoted value, keeping
\* the attribute
C2_Witness ==
    /\ mode = "parse" /\ pc = "done" /\ last = "return"
    /\ \E n \in 1..Len(tags) : \E m \in 1..Len(tags[n].attributes) :
         LET a == tags[n].attributes[m] IN
           /\ a.value_end = Some(Len(source))
           /\ \E vs \in a.value_start : vs > 0 /\ B(source, vs - 1) = "\""

\* the span fields of attribute a are valid offsets of s and slice to its texts
SpanValid(s, a) ==
    /\ 0 <= a.name_start /\ a.name_start <= a.name_end /\ a.name_end <= Len(s)
    /\ Slice(s, a.name_start, a.name_end) = a.name
    /\ (a.value = None) = (a.value_start = None)
    /\ (a.value = None) = (a.value_end = None)
    /\ \A v \in a.value : \A vs \in a.value_start : \A ve \in a.value_end :
         /\ 0 <= vs /\ vs <= ve /\ ve <= Len(s)
         /\ Slice(s, vs, ve) = v

\* C3: every attribute parse_tags produces has name offsets within the
\* source that slice to its name, and a value, value_start and value_end
\* that are present together, within the source, and slice to its value.
C3_SpanValidity ==
    mode = "parse" =>
      \A n \in 1..Len(TagsSoFar) : \A m \in 1..Len(TagsSoFar[n].attributes) :
        SpanValid(source, TagsSoFar[n].attributes[m])

\* a returned tag holds an attribute with a non-empty value and one without
C3_Witness ==
    /\ mode = "parse" /\ pc = "done"
    /\ \E n \in 1..Len(tags) :
         /\ \E m \in 1..Len(tags[n].attributes) :
              \E v \in tags[n].attributes[m].value : v # ""
         /\ \E m \in 1..Len(tags[n].attributes) :
              tags[n].attributes[m].value = None

\* where attribute a ends: its value_end if it has a value, else its name_end
AttrEnd(a) == UnwrapOr(a.value_end, a.name_end)

\* C4: spans are ordered and disjoint: name_start < name_end <= value_start
\* <= value_end; within a tag an attribute starts at or after the end of
\* the one before it; an attribute of a later tag starts after the end of
\* every attribute of an earlier tag.
C4_SpanOrder ==
    mode = "parse" =>
      LET ts == TagsSoFar IN
      /\ \A n \in 1..Len(ts) : \A m \in 1..Len(ts[n].attributes) :
           LET a == ts[n].attributes[m] IN
             /\ a.name_start < a.name_end
             /\ \A vs \in a.value_start : \A ve \in a.value_end :
                  a.name_end <= vs /\ vs <= ve
             /\ m > 1 => a.name_start >= AttrEnd(ts[n].attributes[m - 1])
      /\ \A n1 \in 1..Len(ts) : \A n2 \in 1..Len(ts) :
           n1 < n2 =>
             \A m1 \in 1..Len(ts[n1].attributes) :
               \A m2 \in 1..Len(ts[n2].attributes) :
                 ts[n2].attributes[m2].name_start > AttrEnd(ts[n1].attributes[m1])

\* two tags with attributes were returned, the first holding an attribute
\* with a value followed by a further attribute
C4_Witness ==
    /\ mode = "parse" /\ pc = "done" /\ Len(tags) >= 2
    /\ Len(tags[1].attributes) >= 2
    /\ tags[1].attributes[1].value # None
    /\ Len(tags[2].attributes) >= 1

-----------------------------------------------------------------------------
(* The decomposer applied to a name, its parts joined again, and the joined
   name decomposed again *)

RECURSIVE JoinModifiers(_, _)
\* base followed by "__" + m for each modifier m in order
JoinModifiers(base, modifiers) ==
    IF modifiers = <<>> THEN base
    ELSE JoinModifiers(base \o "__" \o Head(modifiers), Tail(modifiers))

InitNames ==
    /\ mode = "names"
    /\ pc = "name"
    /\ path = ""
    /\ attr_value = ""
    /\ source \in Texts(NameToks, MaxNameToks)
    /\ config = DefaultConfig
    /\ i = 0
    /\ idx = 0
    /\ tag_name = ""
    /\ attributes = <<>>
    /\ tags = <<>>
    /\ fault = FALSE
    /\ prev = 0
    /\ t = 0
    /\ diags = <<>>
    /\ last = [n |-> "", base |-> "", modifiers |-> <<>>]

\* base_attr_name and extract_modifiers applied to the name
Decompose ==
    /\ mode = "names" /\ pc = "name"
    /\ last' = [n |-> source, base |-> base_attr_name(source),
                modifiers |-> extract_modifiers(source)]
    /\ pc' = "split"
    /\ UNCHANGED <<mode, path, attr_value, source, config, i, idx, tag_name, attributes,
                   tags, fault, prev, t, diags>>

\* the parts joined again with the delimiter
Reassemble ==
    /\ mode = "names" /\ pc = "split"
    /\ source' = JoinModifiers(last.base, last.modifiers)
    /\ pc' = "joined"
    /\ UNCHANGED <<mode, path, attr_value, config, i, idx, tag_name, attributes, tags,
                   fault, prev, t, diags, last>>

\* the joined name decomposed
Redecompose ==
    /\ mode = "names" /\ pc = "joined"
    /\ tag_name' = base_attr_name(source)
    /\ attributes' = extract_modifiers(source)
    /\ pc' = "resplit"
    /\ UNCHANGED <<mode, path, attr_value, source, config, i, idx, tags, fault, prev, t,
                   diags, last>>

NextNames ==
    \/ Decompose
    \/ Reassemble
    \/ Redecompose

SpecNames == InitNames /\ [][NextNames]_vars

\* C7: the name rejoined from base_attr_name(n) and extract_modifiers(n)
\* decomposes to the same base and the same modifiers as n.
C7_RoundTrip ==
    (mode = "names" /\ pc = "resplit") =>
      (tag_name = last.base /\ attributes = last.modifiers)

\* the length of the run of "_" that name n ends in
RECURSIVE TrailingUnderscores(_)
TrailingUnderscores(n) ==
    IF n # "" /\ B(n, Len(n) - 1) = "_"
    THEN 1 + TrailingUnderscores(Slice(n, 0, Len(n) - 1))
    ELSE 0

\* C8 as claimed: the rejoined name is n itself, for every n.
C8_ExactReassembly ==
    (mode = "names" /\ pc = "joined") => source = last.n

\* C8 amended: the rejoined name is n itself unless n ends in a run of
\* underscores of even length >= 2, and then it is n without its last "__";
\* a name with no "__" has no modifiers and is its own base.
C8_ReassemblyUpToTrailingDelimiter ==
    (mode = "names" /\ pc = "joined") =>
      LET run == TrailingUnderscores(last.n) IN
      /\ (run = 0 \/ run % 2 = 1) => source = last.n
      /\ (run >= 2 /\ run % 2 = 0) => source \o "__" = last.n
      /\ Find(last.n, "__") = -1 =>
           (last.modifiers = <<>> /\ last.base = last.n)

\* a name ending in "__" was rejoined, and the trailing delimiter was lost
C8_Witness ==
    /\ mode = "names" /\ pc = "joined"
    /\ TrailingUnderscores(last.n) = 2
    /\ Len(last.modifiers) = 1
    /\ source \o "__" = last.n

-----------------------------------------------------------------------------
(* check_action_syntax, one loop iteration per step *)

MaxArgToks == 4

MaxOccToks == 4

\* the pieces argument texts are built from: the three quotes (Backtick
\* standing for the third), the parentheses, the escape byte, the argument
\* separator, the byte a URL starts with, a blank and a letter
ArgToks == {"'", Backtick, ",", ")", "(", Backslash, "/", " ", "x"}

\* the pieces values with several @ occurrences are built from
OccToks == {"@get", "@fit", "@gets", "@", "(", ")", "'", " "}

MaxUrlToks == 3

\* the pieces the rest of a call whose first argument opens a quoted URL is
\* built from
UrlToks == {"'", ",", ")", "x", " "}

\* the attribute values scanned: a call of a known action followed by an
\* argument text, a text of occurrences, or a call that opens a quoted URL
IsActionValue(v) ==
    \/ \E a \in Texts(ArgToks, MaxArgToks) : v = "@get(" \o a
    \/ v \in Texts(OccToks, MaxOccToks)
    \/ \E a \in Texts(UrlToks, MaxUrlToks) : v = "@get('/" \o a

\* the markup that carries value v in a data- attribute
Markup(v) == "<a data-x=\"" \o v \o "\">"

InitAction ==
    /\ mode = "action"
    /\ pc = "loop"
    /\ path = ""
    /\ IsActionValue(attr_value)
    /\ source = Markup(attr_value)
    /\ config = DefaultConfig
    /\ i = 0
    /\ idx = 0
    /\ tag_name = "a"
    /\ tags = parse_tags(source)
    /\ attributes = tags[1].attributes
    /\ fault = FALSE
    /\ prev = 0
    /\ t = 1
    /\ diags = <<>>
    /\ last = [i |-> 0, diags |-> <<>>, panic |-> FALSE, kind |-> "init",
               name |-> "", paren_start |-> -1, depth |-> -1, first_arg |-> "",
               slices |-> {}]

\* the loop of check_action_syntax is at an iteration that meets kind
AtIteration(kind) ==
    /\ mode = "action" /\ pc = "loop"
    /\ i < Len(attr_value)
    /\ ActionIter(attr_value, attributes[1], i, diags).kind = kind

\* the effect of one iteration of the while loop of check_action_syntax
Iterate ==
    /\ LET r == ActionIter(attr_value, attributes[1], i, diags) IN
       /\ i' = r.i
       /\ diags' = r.diags
       /\ fault' = r.panic
       /\ last' = r
       /\ pc' = IF r.panic THEN "panicked" ELSE "loop"
    /\ prev' = i
    /\ UNCHANGED <<mode, path, attr_value, source, config, idx, tag_name, attributes,
                   tags, t>>

\* bytes[i] != b'@' (lines 50-53)
SkipByte ==
    /\ AtIteration("skip")
    /\ Iterate

\* action_name.len() <= 1 (lines 63-66)
BareAt ==
    /\ AtIteration("bare")
    /\ Iterate

\* neither an SSE nor a Pro action (lines 72-89)
UnknownAction ==
    /\ AtIteration("unknown")
    /\ Iterate

\* no parenthesis follows the name (lines 97-111)
MissingParens ==
    /\ AtIteration("noparen")
    /\ Iterate

\* the paren scan ends with depth != 0 (lines 137-148)
UnclosedParens ==
    /\ AtIteration("unclosed")
    /\ Iterate

\* a closed call of a Pro action: no argument check (line 151)
ProCall ==
    /\ AtIteration("pro")
    /\ Iterate

\* first_arg.is_empty() (lines 155-167)
MissingUrl ==
    /\ AtIteration("no_url")
    /\ Iterate

\* looks_like_url slices out of range (line 221)
UrlPanic ==
    /\ AtIteration("panic")
    /\ Iterate

\* neither a URL nor an expression (lines 168-181)
BadUrl ==
    /\ AtIteration("bad_url")
    /\ Iterate

\* the first argument passes (line 168, condition false)
UrlOk ==
    /\ AtIteration("url_ok")
    /\ Iterate

\* i >= bytes.len(): the loop and the function end (lines 49, 184)
ActionEnd ==
    /\ mode = "action" /\ pc = "loop"
    /\ i >= Len(attr_value)
    /\ pc' = "done"
    /\ UNCHANGED <<mode, path, attr_value, source, config, i, idx, tag_name, attributes,
                   tags, fault, prev, t, diags, last>>

NextAction ==
    \/ SkipByte
    \/ BareAt
    \/ UnknownAction
    \/ MissingParens
    \/ UnclosedParens
    \/ ProCall
    \/ MissingUrl
    \/ UrlPanic
    \/ BadUrl
    \/ UrlOk
    \/ ActionEnd

SpecAction == InitAction /\ [][NextAction]_vars

-----------------------------------------------------------------------------
(* Paren/quote balance *)

IsQuoteByte(b) == b \in {"\"", "'", Backtick}

RECURSIVE BackslashRun(_, _, _)
\* the number of consecutive backslashes that end just before offset j,
\* counted no further back than offset lo
BackslashRun(s, lo, j) ==
    IF j > lo /\ B(s, j - 1) = Backslash THEN 1 + BackslashRun(s, lo, j - 1) ELSE 0

\* the offset of the quote that closes the one at offset k: the first later
\* occurrence of the same quote that no backslash escapes; -1 when none
MatchingQuote(s, k) ==
    LET closers == {j \in (k + 1)..(Len(s) - 1) :
                      B(s, j) = B(s, k) /\ BackslashRun(s, k + 1, j) % 2 = 0}
    IN  IF closers = {} THEN -1
        ELSE CHOOSE j \in closers : \A h \in closers : j <= h

RECURSIVE BalancedFrom(_, _, _)
\* from offset k at the given depth: every quote met outside a quoted span
\* is matched, and the parentheses outside matched quotes balance
BalancedFrom(s, k, depth) ==
    IF k >= Len(s) THEN depth = 0
    ELSE LET b == B(s, k) IN
         IF b = "(" THEN BalancedFrom(s, k + 1, depth + 1)
         ELSE IF b = ")" THEN depth > 0 /\ BalancedFrom(s, k + 1, depth - 1)
         ELSE IF IsQuoteByte(b)
         THEN MatchingQuote(s, k) # -1 /\ BalancedFrom(s, MatchingQuote(s, k) + 1, depth)
         ELSE BalancedFrom(s, k + 1, depth)

Balanced(s) == BalancedFrom(s, 0, 0)

RECURSIVE OpensUnclosedQuote(_, _, _)
\* from offset k inside a call at the given depth: a quote opens before the
\* call closes and nothing closes it before the end of s
OpensUnclosedQuote(s, k, depth) ==
    IF k >= Len(s) \/ depth = 0 THEN FALSE
    ELSE LET b == B(s, k) IN
         IF b = "(" THEN OpensUnclosedQuote(s, k + 1, depth + 1)
         ELSE IF b = ")" THEN OpensUnclosedQuote(s, k + 1, depth - 1)
         ELSE IF IsQuoteByte(b)
         THEN MatchingQuote(s, k) = -1
              \/ OpensUnclosedQuote(s, MatchingQuote(s, k) + 1, depth)
         ELSE OpensUnclosedQuote(s, k + 1, depth)

HasUnclosed(ds) ==
    \E k \in 1..Len(ds) : StartsWith(ds[k].message, "Unclosed parentheses")

\* C5: a value whose parentheses balance when those inside matched quotes
\* are ignored gets no 'Unclosed parentheses' diagnostic, wherever its
\* @action occurrences lie.
C5_BalancedNoUnclosed ==
    (mode = "action" /\ pc = "done" /\ Balanced(attr_value)) => ~HasUnclosed(diags)

\* C6: when the argument text of a known action call opens a quote that is
\* not closed before the end of the value, the iteration that scans the call
\* ends with depth != 0, appends 'Unclosed parentheses' for that call to the
\* sink and makes no URL-argument check.
C6_UnclosedQuoteStep ==
    (/\ mode = "action" /\ pc = "loop" /\ i < Len(attr_value)
     /\ last'.paren_start >= 0
     /\ OpensUnclosedQuote(attr_value, last'.paren_start + 1, 1))
    => /\ last'.kind = "unclosed"
       /\ last'.depth # 0
       /\ diags' = Append(diags, Diagnostic("datastar/action-syntax",
                      "Unclosed parentheses in '" \o last'.name \o "' call",
                      ActionSpan(attributes[1])))
       /\ last'.first_arg = ""
       /\ ~fault'
       /\ i' >= Len(attr_value)

C6_UnclosedQuote == [][C6_UnclosedQuoteStep]_vars

\* a call whose argument text holds an escaped quote and a parenthesis
\* inside a quote that never closes was scanned
C6_Witness ==
    /\ mode = "action"
    /\ last.kind = "unclosed"
    /\ OpensUnclosedQuote(attr_value, last.paren_start + 1, 1)
    /\ Contains(attr_value, "'" \o Backslash \o "')")

-----------------------------------------------------------------------------
(* lib.rs: DatastarHygiene::lint *)

\* the loop body of lint with check_modifiers behind the check_typos flag
LintTag_SharedFlag(tag, cfg, ds) ==
    LET d1 == IF cfg.check_alpine_vue THEN check_alpine_vue(tag, ds) ELSE ds
        d2 == IF cfg.check_required_values THEN check_required_values(tag, d1) ELSE d1
        d3 == IF cfg.check_for_template THEN check_for_on_template(tag, d2) ELSE d2
        d4 == IF cfg.check_typos THEN check_typos(tag, d3) ELSE d3
        d5 == IF cfg.check_typos THEN check_modifiers(tag, d4) ELSE d4
    IN  IF cfg.check_actions THEN check_actions(tag, d5)
        ELSE [diags |-> d5, panic |-> FALSE]

\* the six checker calls of the loop body for one tag, in the order of
\* lines 75-102: [diags, panic]
LintTag(tag, cfg, ds) ==
    LET d1 == IF cfg.check_alpine_vue THEN check_alpine_vue(tag, ds) ELSE ds
        d2 == IF cfg.check_required_values THEN check_required_values(tag, d1) ELSE d1
        d3 == IF cfg.check_for_template THEN check_for_on_template(tag, d2) ELSE d2
        d4 == IF cfg.check_typos THEN check_typos(tag, d3) ELSE d3
        d5 == IF cfg.check_modifiers THEN check_modifiers(tag, d4) ELSE d4
    IN  IF cfg.check_actions THEN check_actions(tag, d5)
        ELSE [diags |-> d5, panic |-> FALSE]

RECURSIVE LintFrom(_, _, _, _)
\* the loop for tag in &tags from tag k
LintFrom(tgs, k, cfg, ds) ==
    IF k > Len(tgs) THEN [diags |-> ds, panic |-> FALSE]
    ELSE LET r == LintTag(tgs[k], cfg, ds) IN
         IF r.panic THEN r ELSE LintFrom(tgs, k + 1, cfg, r.diags)

\* lint with a path filter: files not named *.html are not linted
Lint_ByExtension(p, s, cfg) ==
    IF EndsWith(p, ".html") THEN LintFrom(parse_tags(s), 1, cfg, <<>>)
    ELSE [diags |-> <<>>, panic |-> FALSE]

\* lint(&self, _path, source) with self.config = cfg: [diags, panic]
Lint(p, s, cfg) == LintFrom(parse_tags(s), 1, cfg, <<>>)

MaxLintChunks == 3

\* the pieces linted sources are built from: two tag openers, a tag end, a
\* whole tag, and attributes that each of the six checkers reports or
\* accepts
LintChunks == {"<div", "<template", ">", "<p data-show x-show>", " x-show", " data-for=\"x\"",
               " data-show", " data-on-click=\"@get\"", " data-on:click__bad",
               " data-x=\"@get(',')\""}

Paths == {"a.html", "b/c.htm"}

\* the rule configurations: the default, each rule switched off alone, and
\* every rule off
Configs ==
    {DefaultConfig,
     [DefaultConfig EXCEPT !.check_alpine_vue = FALSE],
     [DefaultConfig EXCEPT !.check_required_values = FALSE],
     [DefaultConfig EXCEPT !.check_for_template = FALSE],
     [DefaultConfig EXCEPT !.check_typos = FALSE],
     [DefaultConfig EXCEPT !.check_modifiers = FALSE],
     [DefaultConfig EXCEPT !.check_actions = FALSE],
     [check_alpine_vue |-> FALSE, check_required_values |-> FALSE,
      check_typos |-> FALSE, check_modifiers |-> FALSE, check_actions |-> FALSE,
      check_for_template |-> FALSE]}

Init ==
    /\ mode = "lint"
    /\ pc = "parse"
    /\ \/ path \in Paths /\ config = DefaultConfig
       \/ path = "a.html" /\ config \in Configs \ {DefaultConfig}
    /\ attr_value = ""
    /\ source \in Texts(LintChunks, MaxLintChunks)
    /\ i = 0
    /\ idx = 0
    /\ tag_name = ""
    /\ attributes = <<>>
    /\ tags = <<>>
    /\ fault = FALSE
    /\ prev = 0
    /\ t = 0
    /\ diags = <<>>
    /\ last = "init"

\* let mut diags = Diagnostics::new(); let tags = parse_tags(source);
ParseTags ==
    /\ mode = "lint" /\ pc = "parse"
    /\ tags' = parse_tags(source)
    /\ t' = 1
    /\ pc' = IF tags' = <<>> THEN "return" ELSE "alpine_vue"
    /\ last' = "parse"
    /\ UNCHANGED <<mode, path, attr_value, source, config, i, idx, tag_name, attributes,
                   fault, prev, diags>>

CheckAlpineVue ==
    /\ mode = "lint" /\ pc = "alpine_vue"
    /\ diags' = IF config.check_alpine_vue THEN check_alpine_vue(tags[t], diags)
                ELSE diags
    /\ pc' = "required_values"
    /\ last' = "alpine_vue"
    /\ UNCHANGED <<mode, path, attr_value, source, config, i, idx, tag_name, attributes,
                   tags, fault, prev, t>>

CheckRequiredValues ==
    /\ mode = "lint" /\ pc = "required_values"
    /\ diags' = IF config.check_required_values
                THEN check_required_values(tags[t], diags) ELSE diags
    /\ pc' = "for_template"
    /\ last' = "required_values"
    /\ UNCHANGED <<mode, path, attr_value, source, config, i, idx, tag_name, attributes,
                   tags, fault, prev, t>>

CheckForOnTemplate ==
    /\ mode = "lint" /\ pc = "for_template"
    /\ diags' = IF config.check_for_template
                THEN check_for_on_template(tags[t], diags) ELSE diags
    /\ pc' = "typos"
    /\ last' = "for_template"
    /\ UNCHANGED <<mode, path, attr_value, source, config, i, idx, tag_name, attributes,
                   tags, fault, prev, t>>

CheckTypos ==
    /\ mode = "lint" /\ pc = "typos"
    /\ diags' = IF config.check_typos THEN check_typos(tags[t], diags) ELSE diags
    /\ pc' = "modifiers"
    /\ last' = "typos"
    /\ UNCHANGED <<mode, path, attr_value, source, config, i, idx, tag_name, attributes,
                   tags, fault, prev, t>>

CheckModifiers ==
    /\ mode = "lint" /\ pc = "modifiers"
    /\ diags' = IF config.check_modifiers THEN check_modifiers(tags[t], diags)
                ELSE diags
    /\ pc' = "actions"
    /\ last' = "modifiers"
    /\ UNCHANGED <<mode, path, attr_value, source, config, i, idx, tag_name, attributes,
                   tags, fault, prev, t>>

\* the last call of the loop body, then the next tag or the end of the loop;
\* a panic in looks_like_url leaves lint without a result
CheckActions ==
    /\ mode = "lint" /\ pc = "actions"
    /\ LET r == IF config.check_actions THEN check_actions(tags[t], diags)
                ELSE [diags |-> diags, panic |-> FALSE]
       IN  /\ diags' = r.diags
           /\ fault' = r.panic
           /\ pc' = IF r.panic THEN "panicked"
                    ELSE IF t < Len(tags) THEN "alpine_vue" ELSE "return"
           /\ t' = IF r.panic THEN t ELSE t + 1
    /\ last' = "actions"
    /\ UNCHANGED <<mode, path, attr_value, source, config, i, idx, tag_name, attributes,
                   tags, prev>>

\* diags (line 105)
Return ==
    /\ mode = "lint" /\ pc = "return"
    /\ pc' = "done"
    /\ last' = "return"
    /\ UNCHANGED <<mode, path, attr_value, source, config, i, idx, tag_name, attributes,
                   tags, fault, prev, t, diags>>

Next ==
    \/ ParseTags
    \/ CheckAlpineVue
    \/ CheckRequiredValues
    \/ CheckForOnTemplate
    \/ CheckTypos
    \/ CheckModifiers
    \/ CheckActions
    \/ Return

Spec == Init /\ [][Next]_vars

\* C1: lint returns a diagnostic sequence and never panics, for every
\* source and every rule configuration: every slice it takes is in range,
\* the inner content of a quoted first argument of length one included.
C1_NeverPanics ==
    mode = "lint" => (~fault /\ pc # "panicked")

\* what the checker called at program point p appends for tag on a fresh sink
FreshRun(p, tag) ==
    CASE p = "alpine_vue" -> check_alpine_vue(tag, <<>>)
      [] p = "required_values" -> check_required_values(tag, <<>>)
      [] p = "for_template" -> check_for_on_template(tag, <<>>)
      [] p = "typos" -> check_typos(tag, <<>>)
      [] p = "modifiers" -> check_modifiers(tag, <<>>)
      [] p = "actions" -> check_actions(tag, <<>>).diags

RuleEnabled(p) ==
    CASE p = "alpine_vue" -> config.check_alpine_vue
      [] p = "required_values" -> config.check_required_values
      [] p = "for_template" -> config.check_for_template
      [] p = "typos" -> config.check_typos
      [] p = "modifiers" -> config.check_modifiers
      [] p = "actions" -> config.check_actions

CheckerPoints ==
    {"alpine_vue", "required_values", "for_template", "typos", "modifiers", "actions"}

\* C9: each of the six checkers, run on a tag with a sink that already
\* holds diagnostics, leaves the earlier entries unchanged and in place and
\* appends exactly what it produces for that tag on a fresh sink.
C9_AppendOnlyStep ==
    (mode = "lint" /\ pc \in CheckerPoints /\ RuleEnabled(pc)) =>
       /\ Len(diags') >= Len(diags)
       /\ SubSeq(diags', 1, Len(diags)) = diags
       /\ diags' = diags \o FreshRun(pc, tags[t])

C9_AppendOnly == [][C9_AppendOnlyStep]_vars

\* check_typos has appended to a sink that already held the diagnostics of
\* an earlier checker
C9_Witness ==
    /\ mode = "lint" /\ last = "typos"
    /\ Len(diags) >= 2
    /\ diags[1].rule # "datastar/typo"
    /\ diags[Len(diags)].rule = "datastar/typo"

\* C10: under one configuration, lint returns the same diagnostic sequence
\* (rule, message, enforced flag and span, in order) for one source
\* whatever the path.
C10_PathIndependent ==
    (mode = "lint" /\ pc \in {"done", "panicked"}) =>
       \A p \in Paths : Lint(p, source, config) = [diags |-> diags, panic |-> fault]

\* lint has returned diagnostics for a source under the second path
C10_Witness ==
    /\ mode = "lint" /\ pc = "done"
    /\ path = "b/c.htm"
    /\ Len(diags) >= 2

-----------------------------------------------------------------------------
(* The rule checkers, each run on one parsed tag with a fresh sink *)

MaxAttrs == 2

MaxMods == 2

TagNames == {"div", "template", "TEMPLATE"}

\* attribute texts: names each checker reports or accepts, without a value,
\* with the empty value and with a non-empty value
AttrPieces ==
    {" x-show", " @click=\"@get\"", " :v=\"\"", " v-if=\"v\"", " x:y",
     " data-for", " data-for__m=\"v\"", " data-form",
     " data-show", " data-show=\"\"", " data-show__m=\"\"", " data-on:click",
     " data-text=\"v\"",
     " data-on-click", " data-bind-value__m", " data-on-foo", " data-bind-x",
     " data-on-load", " data-intersects=\"@get\""}

\* attribute families: an event, a case-only family, a family with its own
\* list, a family with no list, and a name outside the data- namespace
ModBases == {"data-on:click", "data-bind", "data-persist", "data-x", "x-on"}

\* modifier tokens, each behind its delimiter; the last is the delimiter alone
ModPieces ==
    {"__bad", "__once", "__session", "__case", "__case.camel", "__case.up",
     "__debounce.500ms", "__bad.1", "__5s", "__1", "__inf", "__leading", "__"}

\* the markup checked: a tag with some attributes, or a tag with one
\* attribute that carries modifiers
IsTagSource(s) ==
    \/ \E tn \in TagNames : \E a \in Texts(AttrPieces, MaxAttrs) :
         s = "<" \o tn \o a \o ">"
    \/ \E base \in ModBases : \E m \in Texts(ModPieces, MaxMods) :
         s = "<a " \o base \o m \o "=\"v\">"

InitTag ==
    /\ mode = "tag"
    /\ pc = "ready"
    /\ path = ""
    /\ attr_value = ""
    /\ IsTagSource(source)
    /\ config = DefaultConfig
    /\ i = 0
    /\ idx = 0
    /\ tags = parse_tags(source)
    /\ tag_name = tags[1].name
    /\ attributes = tags[1].attributes
    /\ fault = FALSE
    /\ prev = 0
    /\ t = 1
    /\ diags = <<>>
    /\ last = "init"

RunAlpineVue ==
    /\ mode = "tag" /\ pc = "ready"
    /\ diags' = check_alpine_vue(tags[t], <<>>)
    /\ last' = "alpine_vue"
    /\ pc' = "checked"
    /\ UNCHANGED <<mode, path, attr_value, source, config, i, idx, tag_name, attributes,
                   tags, fault, prev, t>>

RunRequiredValues ==
    /\ mode = "tag" /\ pc = "ready"
    /\ diags' = check_required_values(tags[t], <<>>)
    /\ last' = "required_values"
    /\ pc' = "checked"
    /\ UNCHANGED <<mode, path, attr_value, source, config, i, idx, tag_name, attributes,
                   tags, fault, prev, t>>

RunForOnTemplate ==
    /\ mode = "tag" /\ pc = "ready"
    /\ diags' = check_for_on_template(tags[t], <<>>)
    /\ last' = "for_template"
    /\ pc' = "checked"
    /\ UNCHANGED <<mode, path, attr_value, source, config, i, idx, tag_name, attributes,
                   tags, fault, prev, t>>

RunTypos ==
    /\ mode = "tag" /\ pc = "ready"
    /\ diags' = check_typos(tags[t], <<>>)
    /\ last' = "typos"
    /\ pc' = "checked"
    /\ UNCHANGED <<mode, path, attr_value, source, config, i, idx, tag_name, attributes,
                   tags, fault, prev, t>>

RunModifiers ==
    /\ mode = "tag" /\ pc = "ready"
    /\ diags' = check_modifiers(tags[t], <<>>)
    /\ last' = "modifiers"
    /\ pc' = "checked"
    /\ UNCHANGED <<mode, path, attr_value, source, config, i, idx, tag_name, attributes,
                   tags, fault, prev, t>>

RunActions ==
    /\ mode = "tag" /\ pc = "ready"
    /\ diags' = check_actions(tags[t], <<>>).diags
    /\ fault' = check_actions(tags[t], <<>>).panic
    /\ last' = "actions"
    /\ pc' = "checked"
    /\ UNCHANGED <<mode, path, attr_value, source, config, i, idx, tag_name, attributes,
                   tags, prev, t>>

\* the loop body of lint for this tag under the default configuration
RunAll ==
    /\ mode = "tag" /\ pc = "ready"
    /\ diags' = LintTag(tags[t], DefaultConfig, <<>>).diags
    /\ fault' = LintTag(tags[t], DefaultConfig, <<>>).panic
    /\ last' = "all"
    /\ pc' = "checked"
    /\ UNCHANGED <<mode, path, attr_value, source, config, i, idx, tag_name, attributes,
                   tags, prev, t>>

NextTag ==
    \/ RunAlpineVue
    \/ RunRequiredValues
    \/ RunForOnTemplate
    \/ RunTypos
    \/ RunModifiers
    \/ RunActions
    \/ RunAll

SpecTag == InitTag /\ [][NextTag]_vars

\* the positions in ds of the diagnostics of the given rule that carry the
\* name span of attr
DiagsFor(ds, attr, rule) ==
    {j \in 1..Len(ds) :
       ds[j].rule = rule /\ ds[j].span = Span(attr.name_start, attr.name_end)}

\* C12: check_for_on_template emits exactly one for-template diagnostic for
\* each attribute whose base name is data-for when the tag's name, compared
\* case-insensitively, is not template, and none for any other attribute or
\* on a template.
C12_ForOnTemplate ==
    (mode = "tag" /\ last = "for_template") =>
      /\ \A k \in 1..Len(attributes) :
           Cardinality(DiagsFor(diags, attributes[k], "datastar/for-template"))
             = IF base_attr_name(attributes[k].name) = "data-for"
                  /\ to_lowercase(tag_name) # "template"
               THEN 1 ELSE 0
      /\ \A j \in 1..Len(diags) :
           /\ diags[j].rule = "datastar/for-template"
           /\ \E k \in 1..Len(attributes) :
                diags[j].span = Span(attributes[k].name_start, attributes[k].name_end)

-----------------------------------------------------------------------------
(* Configuration flags and discovery order *)

\* the configuration flag that gates the checker emitting the given rule
RuleOn(cfg, rule) ==
    CASE rule = "datastar/no-alpine-vue-attrs" -> cfg.check_alpine_vue
      [] rule = "datastar/require-value" -> cfg.check_required_values
      [] rule = "datastar/for-template" -> cfg.check_for_template
      [] rule = "datastar/typo" -> cfg.check_typos
      [] rule = "datastar/invalid-modifier" -> cfg.check_modifiers
      [] rule = "datastar/action-syntax" -> cfg.check_actions

RECURSIVE KeepEnabled(_, _)
\* ds without the diagnostics whose rule is switched off in cfg, the order
\* of the rest kept
KeepEnabled(ds, cfg) ==
    IF ds = <<>> THEN <<>>
    ELSE IF RuleOn(cfg, Head(ds).rule) THEN <<Head(ds)>> \o KeepEnabled(Tail(ds), cfg)
    ELSE KeepEnabled(Tail(ds), cfg)

-----------------------------------------------------------------------------
(* Typo table and separator convention *)

\* the hyphenated prefixes the separator convention reports
SeparatorPrefixes ==
    {"data-on-", "data-bind-", "data-attr-", "data-class-", "data-style-",
     "data-indicator-"}

IsTableHit(d) == StartsWith(d.message, "Possible typo: '")

IsSeparatorDiag(d) == StartsWith(d.message, "Use colon")

\* the hyphenated prefix a separator-convention diagnostic is about
SeparatorPrefixOf(d) ==
    CHOOSE p \in SeparatorPrefixes : Contains(d.message, " instead of '" \o p)

\* the entries of the typo table whose typo is the given base name
TableEntries(base) == {e \in 1..Len(TYPOS) : TYPOS[e][1] = base}

\* C13: a data- attribute whose base name is in the typo table gets exactly
\* one typo diagnostic, carrying the table's suggestion, and no
\* separator-convention diagnostic; no attribute gets both kinds, and the
\* separator-convention diagnostics of one attribute are for pairwise
\* distinct prefixes.
C13_TableHitExcludesSeparator ==
    (mode = "tag" /\ last = "typos") =>
      \A k \in 1..Len(attributes) :
        LET attr == attributes[k]
            mine == DiagsFor(diags, attr, "datastar/typo")
            hits == TableEntries(base_attr_name(attr.name))
        IN  /\ (StartsWith(attr.name, "data-") /\ hits # {}) =>
                 /\ Cardinality(mine) = 1
                 /\ \A j \in mine :
                      /\ IsTableHit(diags[j])
                      /\ \E e \in hits :
                           Contains(diags[j].message,
                                    "did you mean '" \o TYPOS[e][2] \o "'?")
            /\ ~(\E j1, j2 \in mine :
                   IsTableHit(diags[j1]) /\ IsSeparatorDiag(diags[j2]))
            /\ \A j1, j2 \in mine :
                 (j1 # j2 /\ IsSeparatorDiag(diags[j1]) /\ IsSeparatorDiag(diags[j2]))
                   => SeparatorPrefixOf(diags[j1]) # SeparatorPrefixOf(diags[j2])
            /\ \A j \in mine : IsTableHit(diags[j]) \/ IsSeparatorDiag(diags[j])

\* check_typos ran on a tag with a table hit whose name also starts with a
\* hyphenated prefix, next to an attribute reported for its separator
C13_Witness ==
    /\ mode = "tag" /\ last = "typos"
    /\ \E k1, k2 \in 1..Len(attributes) :
         /\ base_attr_name(attributes[k1].name) = "data-bind-value"
         /\ attributes[k1].name # "data-bind-value"
         /\ attributes[k2].name = "data-on-foo"
    /\ Len(diags) = 2
    /\ IsTableHit(diags[1]) /\ IsSeparatorDiag(diags[2])

-----------------------------------------------------------------------------
(* Modifier tokens *)

\* the base of a modifier token: the token up to its first "."
ModifierBase(m) == BeforeFirst(m, ".")

\* a timing/ordering token: ends in ms or s, is one of the four ordering
\* words, or is a number
IsTimingToken(b) ==
    \/ EndsWith(b, "ms")
    \/ EndsWith(b, "s")
    \/ b \in {"leading", "trailing", "noleading", "notrailing"}
    \/ ParsesAsF64(b)

\* the invalid-modifier diagnostics of attr in ds that report token m
ModifierReports(ds, attr, m) ==
    {j \in DiagsFor(ds, attr, "datastar/invalid-modifier") :
       StartsWith(ds[j].message,
                  "Invalid modifier '" \o m \o "' for '"
                    \o base_attr_name(attr.name) \o "'. Valid modifiers: ")}

\* the token at position n of the modifiers of attr is reported once for
\* each of its occurrences if it is rejected, and not at all otherwise
TokenRuleHolds(ds, attr, n) ==
    LET mods == extract_modifiers(attr.name)
        m == mods[n]
        allow == get_valid_modifiers(base_attr_name(attr.name))
        rejected == ~SeqContains(allow, ModifierBase(m))
                      /\ ~IsTimingToken(ModifierBase(m))
        occurrences == Cardinality({n2 \in 1..Len(mods) : mods[n2] = m})
    IN  ModifierBase(m) # "case" =>
          Cardinality(ModifierReports(ds, attr, m))
            = IF rejected THEN occurrences ELSE 0

\* C14: for every attribute carrying modifiers and every modifier token
\* whose base is not case, check_modifiers emits exactly one
\* invalid-modifier diagnostic for the token if and only if its base is
\* neither in the allow-list of the attribute's base name nor a
\* timing/ordering token.
C14_ModifierAllowList ==
    (mode = "tag" /\ last = "modifiers") =>
      \A k \in 1..Len(attributes) :
        \A n \in 1..Len(extract_modifiers(attributes[k].name)) :
          TokenRuleHolds(diags, attributes[k], n)

\* the same for the attributes in the data- namespace only
ModifierAllowListOfDataAttrs ==
    (mode = "tag" /\ last = "modifiers") =>
      \A k \in 1..Len(attributes) :
        is_datastar_attr(attributes[k].name) =>
          \A n \in 1..Len(extract_modifiers(attributes[k].name)) :
            TokenRuleHolds(diags, attributes[k], n)

\* the invalid-modifier diagnostics of attr in ds that name case value v
CaseReports(ds, attr, v) ==
    {j \in DiagsFor(ds, attr, "datastar/invalid-modifier") :
       ds[j].message = "Invalid case modifier '" \o v
                         \o "'. Valid options: camel, kebab, snake, pascal"}

\* the text of token m after "case."
CaseValue(m) == SubSeq(m, 6, Len(m))

\* C15: on a data- attribute of any family a modifier token case.V yields
\* exactly one invalid-modifier diagnostic, naming V, when V is not one of
\* camel, kebab, snake, pascal and none when it is; the allow-list of the
\* family is never consulted for a token whose base is case.
C15_CaseBypassesAllowList ==
    (mode = "tag" /\ last = "modifiers") =>
      \A k \in 1..Len(attributes) :
        LET attr == attributes[k]
            mods == extract_modifiers(attr.name)
        IN  is_datastar_attr(attr.name) =>
              \A n \in 1..Len(mods) :
                ModifierBase(mods[n]) = "case" =>
                  /\ ModifierReports(diags, attr, mods[n]) = {}
                  /\ StartsWith(mods[n], "case.") =>
                       Cardinality(CaseReports(diags, attr, CaseValue(mods[n])))
                         = IF CaseValue(mods[n])
                                \in {"camel", "kebab", "snake", "pascal"}
                           THEN 0
                           ELSE Cardinality({n2 \in 1..Len(mods) :
                                               mods[n2] = mods[n]})

\* a persist attribute, whose allow-list has no case entry, carrying a valid
\* and an invalid case token: only the invalid value is reported
C15_Witness ==
    /\ mode = "tag" /\ last = "modifiers"
    /\ Len(attributes) = 1
    /\ attributes[1].name = "data-persist__case.up__case.camel"
    /\ ~SeqContains(get_valid_modifiers("data-persist"), "case")
    /\ Len(diags) = 1
    /\ CaseReports(diags, attributes[1], "up") = {1}

-----------------------------------------------------------------------------
(* The first argument of an SSE call *)

SseNames == {"@get", "@post", "@patch", "@put", "@delete"}

\* the offsets (from 1) of the commas of s
CommasOf(s) == {k \in 1..Len(s) : SubSeq(s, k, k) = ","}

\* s up to its first comma, wherever that comma lies
UpToFirstComma(s) ==
    IF CommasOf(s) = {} THEN s
    ELSE SubSeq(s, 1, (CHOOSE k \in CommasOf(s) : \A h \in CommasOf(s) : k <= h) - 1)

RECURSIVE TopLevelCommaFrom(_, _, _)
\* the offset (from 0) of the first comma of s at or after k that is outside
\* quoted spans and outside nested parentheses; -1 when none
TopLevelCommaFrom(s, k, depth) ==
    IF k >= Len(s) THEN -1
    ELSE LET b == B(s, k) IN
         IF b = "," /\ depth = 0 THEN k
         ELSE IF b = "(" THEN TopLevelCommaFrom(s, k + 1, depth + 1)
         ELSE IF b = ")" THEN TopLevelCommaFrom(s, k + 1, depth - 1)
         ELSE IF IsQuoteByte(b)
         THEN IF MatchingQuote(s, k) = -1 THEN -1
              ELSE TopLevelCommaFrom(s, MatchingQuote(s, k) + 1, depth)
         ELSE TopLevelCommaFrom(s, k + 1, depth)

\* s up to its first top-level comma
UpToTopLevelComma(s) ==
    IF TopLevelCommaFrom(s, 0, 0) = -1 THEN s
    ELSE SubSeq(s, 1, TopLevelCommaFrom(s, 0, 0))

\* a bare text starting with "/", or a literal delimited by one and the same
\* quote whose inner content starts with "/"
IsUrlText(a) ==
    \/ StartsWith(a, "/")
    \/ /\ Len(a) >= 2
       /\ IsQuoteByte(B(a, 0))
       /\ B(a, Len(a) - 1) = B(a, 0)
       /\ StartsWith(SubSeq(a, 2, Len(a) - 1), "/")

\* contains $ or +, or starts with a backtick
IsExpressionText(a) ==
    Contains(a, "$") \/ Contains(a, "+") \/ StartsWith(a, Backtick)

\* what the URL check is to do with first argument a
FirstArgOutcome(a) ==
    IF a = "" THEN "no_url"
    ELSE IF IsUrlText(a) \/ IsExpressionText(a) THEN "none"
    ELSE "bad_url"

\* what the iteration taken in this step did to the sink
ObservedOutcome ==
    IF fault' THEN "panic"
    ELSE IF diags' = diags THEN "none"
    ELSE IF /\ Len(diags') = Len(diags) + 1
            /\ SubSeq(diags', 1, Len(diags)) = diags
            /\ diags'[Len(diags')].rule = "datastar/action-syntax"
    THEN IF Contains(diags'[Len(diags')].message, "requires a URL argument")
         THEN "no_url"
         ELSE IF Contains(diags'[Len(diags')].message, "URL should start with")
         THEN "bad_url"
         ELSE "other"
    ELSE "other"

\* this step scans a call of an SSE action whose parentheses balance
ScansSseCall ==
    /\ mode = "action" /\ pc = "loop" /\ i < Len(attr_value)
    /\ last'.name \in SseNames
    /\ last'.paren_start >= 0
    /\ last'.depth = 0

\* the text between the parentheses of the call scanned in this step
InnerText == Slice(attr_value, last'.paren_start + 1, i' - 1)

C16_TopLevelCommaStep ==
    ScansSseCall =>
      ObservedOutcome = FirstArgOutcome(Trim(UpToTopLevelComma(InnerText)))

C16_FirstCommaStep ==
    ScansSseCall =>
      LET a == Trim(UpToFirstComma(InnerText)) IN
      ObservedOutcome =
        IF Len(a) = 1 /\ IsQuoteByte(B(a, 0)) THEN "panic" ELSE FirstArgOutcome(a)

-----------------------------------------------------------------------------
(* Known actions without parentheses *)

KnownActions ==
    {"@get", "@post", "@patch", "@put", "@delete", "@clipboard", "@fit"}

\* the end of the maximal run of letters of s that starts at offset k
LetterRunEnd(s, k) ==
    CHOOSE e \in k..Len(s) :
      /\ \A j \in k..(e - 1) : is_action_char(B(s, j))
      /\ e = Len(s) \/ ~is_action_char(B(s, e))

\* the first offset of s at or after k that holds no blank
BlankRunEnd(s, k) ==
    CHOOSE e \in k..Len(s) :
      /\ \A j \in k..(e - 1) : B(s, j) = " "
      /\ e = Len(s) \/ B(s, e) # " "

\* offset k of s starts an occurrence of a known action name that no
\* opening parenthesis follows, blanks skipped
BareKnownAt(s, k) ==
    /\ k < Len(s) /\ B(s, k) = "@"
    /\ Slice(s, k, LetterRunEnd(s, k + 1)) \in KnownActions
    /\ LET p == BlankRunEnd(s, LetterRunEnd(s, k + 1)) IN
       p = Len(s) \/ B(s, p) # "("

\* the 'requires parentheses' diagnostics of ds
ParenReports(ds) ==
    {j \in 1..Len(ds) : Contains(ds[j].message, "requires parentheses")}

\* C17: every occurrence in the value of a known action name that no
\* opening parenthesis follows gets exactly one 'requires parentheses'
\* diagnostic, so that a finished scan has reported as many as there are
\* such occurrences.
C17_EveryOccurrence ==
    (mode = "action" /\ pc = "done") =>
      Cardinality(ParenReports(diags))
        = Cardinality({k \in 0..(Len(attr_value) - 1) : BareKnownAt(attr_value, k)})

C17_ReachedOccurrenceStep ==
    (/\ mode = "action" /\ pc = "loop"
     /\ BareKnownAt(attr_value, i)
     /\ i' # i)
    => LET name == Slice(attr_value, i, LetterRunEnd(attr_value, i + 1)) IN
       /\ Len(diags') = Len(diags) + 1
       /\ SubSeq(diags', 1, Len(diags)) = diags
       /\ diags'[Len(diags')].rule = "datastar/action-syntax"
       /\ diags'[Len(diags')].span = ActionSpan(attributes[1])
       /\ Contains(diags'[Len(diags')].message, "requires parentheses")
       /\ Contains(diags'[Len(diags')].message, "'" \o name \o "'")
       /\ ~fault' /\ pc' = "loop"
       /\ i' = BlankRunEnd(attr_value, LetterRunEnd(attr_value, i + 1))
       /\ \A k \in (i + 1)..(Len(attr_value) - 1) :
            B(attr_value, k) = "@" => i' <= k

\* C17 (as the code has it): every such occurrence that the scan reaches,
\* which leaves out those inside the parentheses of an earlier call, gets
\* exactly one 'requires parentheses' diagnostic and nothing else, and the
\* scan goes on at the first byte after the name and its blanks, before
\* any later @.
C17_ReachedOccurrence == [][C17_ReachedOccurrenceStep]_vars

\* two occurrences in one value were both reported
C17_Witness ==
    /\ mode = "action" /\ last.kind = "noparen"
    /\ Cardinality(ParenReports(diags)) = 2
    /\ Cardinality({k \in 0..(Len(attr_value) - 1) : BareKnownAt(attr_value, k)}) >= 2

-----------------------------------------------------------------------------
(* Alpine/Vue attributes under the default configuration *)

\* the diagnostics of ds that point at attr: at its name or at its value
DiagsOf(ds, attr) ==
    {j \in 1..Len(ds) :
       ds[j].span \in {Span(attr.name_start, attr.name_end), ActionSpan(attr)}}

HasForeignPrefix(name) ==
    \E p \in {"x-", "x:", "v-", "@", ":"} : StartsWith(name, p)

\* C18: under the default configuration every attribute whose name starts
\* with x-, x:, v-, @ or : yields exactly one diagnostic, of rule
\* no-alpine-vue-attrs, and none of another rule, whatever its value; other
\* attributes yield no no-alpine-vue-attrs diagnostic.
C18_ForeignAttrsOneDiagnostic ==
    (mode = "tag" /\ last = "all") =>
      /\ ~fault
      /\ \A k \in 1..Len(attributes) :
           LET mine == DiagsOf(diags, attributes[k]) IN
           IF HasForeignPrefix(attributes[k].name)
           THEN /\ Cardinality(mine) = 1
                /\ \A j \in mine : diags[j].rule = "datastar/no-alpine-vue-attrs"
           ELSE \A j \in mine : diags[j].rule # "datastar/no-alpine-vue-attrs"

\* a tag with an @-attribute whose value holds an action without
\* parentheses, next to a data- attribute that is reported
C18_Witness ==
    /\ mode = "tag" /\ last = "all"
    /\ Len(attributes) = 2
    /\ attributes[1].name = "@click" /\ attributes[1].value = Some("@get")
    /\ is_datastar_attr(attributes[2].name)
    /\ DiagsOf(diags, attributes[2]) # {}
    /\ Cardinality(DiagsOf(diags, attributes[1])) = 1

-----------------------------------------------------------------------------
(* Required values *)

MustHaveValue(base) ==
    \/ base \in {"data-show", "data-text", "data-html", "data-class",
                 "data-effect", "data-computed", "data-replace-url"}
    \/ \E p \in {"data-on:", "data-attr:", "data-class:", "data-style:",
                 "data-computed:"} : StartsWith(base, p)

\* C19: check_required_values emits exactly one require-value diagnostic
\* for an attribute if and only if its base name is in the must-have-value
\* set or starts with one of the colon prefixes and the attribute has no
\* value or the empty value; otherwise it emits none for it.
C19_RequireValue ==
    (mode = "tag" /\ last = "required_values") =>
      /\ \A j \in 1..Len(diags) : diags[j].rule = "datastar/require-value"
      /\ \A k \in 1..Len(attributes) :
           LET attr == attributes[k] IN
           Cardinality(DiagsFor(diags, attr, "datastar/require-value"))
             = IF /\ MustHaveValue(base_attr_name(attr.name))
                  /\ attr.value \in {None, Some("")}
               THEN 1 ELSE 0

\* a must-have-value attribute that carries a modifier and the empty value
\* was reported, next to one with a value that was not
C19_Witness ==
    /\ mode = "tag" /\ last = "required_values"
    /\ Len(attributes) = 2
    /\ attributes[1].name = "data-show__m" /\ attributes[1].value = Some("")
    /\ attributes[2].name = "data-text" /\ attributes[2].value = Some("v")
    /\ Len(diags) = 1
    /\ DiagsFor(diags, attributes[1], "datastar/require-value") = {1}

-----------------------------------------------------------------------------
(* Discovery order *)

\* the checkers in the order lint calls them
CheckerOrder ==
    <<"alpine_vue", "required_values", "for_template", "typos", "modifiers",
      "actions">>

RECURSIVE CheckersOutput(_, _)
\* the outputs on tag of the enabled checkers from position n of the order
CheckersOutput(tag, n) ==
    IF n > Len(CheckerOrder) THEN <<>>
    ELSE (IF RuleEnabled(CheckerOrder[n]) THEN FreshRun(CheckerOrder[n], tag)
          ELSE <<>>)
         \o CheckersOutput(tag, n + 1)

RECURSIVE TagsOutput(_, _)
\* the outputs for the tags of tgs from tag k, in source order
TagsOutput(tgs, k) ==
    IF k > Len(tgs) THEN <<>>
    ELSE CheckersOutput(tgs[k], 1) \o TagsOutput(tgs, k + 1)

\* ds follows attribute order: its spans start at non-decreasing offsets
InAttributeOrder(ds) ==
    \A j \in 1..(Len(ds) - 1) : ds[j].span.start <= ds[j + 1].span.start

\* C20: lint returns, for the tags in source order, the concatenation of
\* the outputs of the enabled checkers in the order Alpine/Vue,
\* required-value, for-template, typo, modifier, action; within one tag and
\* one checker the diagnostics follow attribute order.
C20_DiscoveryOrder ==
    (mode = "lint" /\ pc = "done") =>
      /\ diags = TagsOutput(tags, 1)
      /\ \A k \in 1..Len(tags) : \A p \in CheckerPoints :
           InAttributeOrder(FreshRun(p, tags[k]))

\* lint has returned diagnostics for two tags, and those of the first tag
\* are not in the order of their spans
C20_Witness ==
    /\ mode = "lint" /\ pc = "done"
    /\ Len(tags) = 2
    /\ CheckersOutput(tags[1], 1) # <<>>
    /\ CheckersOutput(tags[2], 1) # <<>>
    /\ ~InAttributeOrder(CheckersOutput(tags[1], 1))
    /\ \E j \in 1..(Len(diags) - 1) : diags[j].span.start > diags[j + 1].span.start

-----------------------------------------------------------------------------
(* The end of the attribute loop *)

\* the attribute loop of a tag has just ended, with the cursor at i
TagJustEnded ==
    mode = "parse" /\ last \in {"eof", "close", "slash"}

\* C21: the attribute loop of a tag ends only at ">" (consumed), at a "/"
\* immediately followed by ">", or at end of input, so that a "/" not
\* followed by ">" leaves the tag open for the attributes after it; the
\* attributes parsed before the end are kept on the tag.
C21_TagEndsAtBracketOrEof ==
    TagJustEnded =>
      /\ B(source, i - 1) = ">" \/ i = Len(source)
      /\ tags[Len(tags)] = Tag(tag_name, attributes)

\* where the attribute loop of the code ends: after ">", after any "/", or
\* at end of input
TagEndsAtBracketSlashOrEof ==
    TagJustEnded =>
      /\ B(source, i - 1) \in {">", "/"} \/ i = Len(source)
      /\ tags[Len(tags)] = Tag(tag_name, attributes)

-----------------------------------------------------------------------------
(* Comments *)

\* the offsets at or after from where "-->" starts in s
ClosersFrom(s, from) ==
    {k \in from..(Len(s) - 3) : SubSeq(s, k + 1, k + 3) = "-->"}

\* the outer scan is at a "<!--"
AtCommentOpener ==
    /\ mode = "parse" /\ pc = "scan"
    /\ i + 4 <= Len(source)
    /\ SubSeq(source, i + 1, i + 4) = "<!--"

C22_CommentSkippedStep ==
    AtCommentOpener =>
      LET closers == ClosersFrom(source, i + 4) IN
      /\ tags' = tags
      /\ IF closers # {}
         THEN /\ pc' = "scan"
              /\ i' = (CHOOSE k \in closers : \A h \in closers : k <= h) + 3
         ELSE /\ pc' = "done"
              /\ i' = i

\* C22: when the outer scan meets "<!--" it resumes just after the next
\* "-->" and emits no tag for what lies between; when no "-->" follows it
\* stops there, and the tags emitted before the comment are returned
\* unchanged.
C22_CommentSkipped == [][C22_CommentSkippedStep]_vars

\* a closed comment that holds a tag opener was skipped and the tag after it
\* is the only one returned
C22_Witness ==
    /\ mode = "parse" /\ pc = "done" /\ last = "return"
    /\ StartsWith(source, "<!--<a -->")
    /\ Len(tags) = 1

-----------------------------------------------------------------------------
(* Diagnostic spans *)

\* d points at attribute a: at its value if d is an action-syntax
\* diagnostic, at its name otherwise
PointsAt(d, a) ==
    IF d.rule = "datastar/action-syntax"
    THEN a.value_start = Some(d.span.start) /\ a.value_end = Some(d.span.end)
    ELSE a.name_start = d.span.start /\ a.name_end = d.span.end

\* C23: every diagnostic of lint has a span within the source,
\* 0 <= start <= end <= length(source), that is the value span of an
\* attribute produced by parse_tags if its rule is action-syntax and the
\* name span of one otherwise.
C23_SpansAreAttributeSpans ==
    mode = "lint" =>
      LET parsed == parse_tags(source) IN
      \A j \in 1..Len(diags) :
        /\ 0 <= diags[j].span.start
        /\ diags[j].span.start <= diags[j].span.end
        /\ diags[j].span.end <= Len(source)
        /\ \E n \in 1..Len(parsed) : \E m \in 1..Len(parsed[n].attributes) :
             PointsAt(diags[j], parsed[n].attributes[m])

\* lint has returned an action-syntax diagnostic and one of another rule for
\* one attribute, at different spans
C23_Witness ==
    /\ mode = "lint" /\ pc = "done"
    /\ \E j, k \in 1..Len(diags) :
         \E n \in 1..Len(tags) : \E m \in 1..Len(tags[n].attributes) :
           /\ diags[j].rule = "datastar/action-syntax"
           /\ diags[k].rule # "datastar/action-syntax"
           /\ PointsAt(diags[j], tags[n].attributes[m])
           /\ PointsAt(diags[k], tags[n].attributes[m])
           /\ diags[j].span # diags[k].span

=============================================================================
